---- MODULE Spec2Model ----
(***************************************************************************)
(* Claude-Code-Usage-Monitor: the usage-polling and scheduling engine.     *)
(*                                                                         *)
(* The widget keeps one process-wide AppState behind a mutex (window.rs    *)
(* STATE / lock_state).  The window procedure (wnd_proc) runs on the       *)
(* message-loop thread; every poll runs do_poll on a freshly spawned       *)
(* thread, which calls poller::poll(), takes the mutex, writes the         *)
(* outcome, re-arms or kills Win32 timers and posts WM_APP_USAGE_UPDATED.  *)
(*                                                                         *)
(* Time is in milliseconds.  Percentages are kept in tenths of a percent   *)
(* (utilization in per-mille), so that "{:.0}" rounding is a computation.  *)
(* Option<T> is a tuple: <<>> is None, <<v>> is Some(v).                   *)
(*                                                                         *)
(* Win32 timers are modelled as the code uses them: SetTimer(hwnd, id, ms) *)
(* creates or replaces timer id and restarts its period from now, the      *)
(* timer then fires every ms until KillTimer; WM_TIMER is delivered only   *)
(* when no posted message is waiting.  The message loop is taken to be     *)
(* responsive: handlers take no time, so the clock only advances while     *)
(* the loop is idle and no timer is overdue; only the network call of a    *)
(* poll takes time.  SetTimer and KillTimer called from a do_poll thread   *)
(* act on the window's timers, as the code means them to.                  *)
(***************************************************************************)
EXTENDS Integers, Sequences, FiniteSets, TLC

VARIABLES
    now,               \* SystemTime::now(), ms
    session_percent,   \* AppState.session_percent (tenths of a percent)
    session_text,      \* AppState.session_text
    weekly_percent,    \* AppState.weekly_percent
    weekly_text,       \* AppState.weekly_text
    data,              \* AppState.data : Option<UsageData>
    poll_interval_ms,  \* AppState.poll_interval_ms
    retry_count,       \* AppState.retry_count
    last_poll_ok,      \* AppState.last_poll_ok
    timers,            \* the window's Win32 timers, by timer id
    mutex,             \* STATE's mutex: 0 when free, else the holding worker
    workers,           \* the do_poll threads
    main,              \* the message-loop thread: where it is in a handler
    queue,             \* WM_APP_USAGE_UPDATED messages posted, not yet handled:
                       \* one entry each, TRUE when posted by the Ok arm
    cmds,              \* history: menu commands handled so far
    ev,                \* history: the step taken last
    fails,             \* history: failures applied since the last success
    last_fast,         \* history: when the fast poll timer was started or
                       \* last fired, None while it is off
    call,              \* one call of poller::poll(): its inputs, where it is,
                       \* the requests it has sent, its result
    hdr,               \* one response given to try_model's header test and to
                       \* parse_headers, and what they return
    fmt                \* one resets_at given to format_countdown and
                       \* time_until_display_change, and what they return

vars == <<now, session_percent, session_text, weekly_percent, weekly_text,
          data, poll_interval_ms, retry_count, last_poll_ok, timers, mutex,
          workers, main, queue, cmds, ev, fails, last_fast, call, hdr, fmt>>

(* the calls followed on their own, outside the run of the widget *)
unitVars == <<call, hdr, fmt>>
widgetVars == <<now, session_percent, session_text, weekly_percent, weekly_text,
                data, poll_interval_ms, retry_count, last_poll_ok, timers, mutex,
                workers, main, queue, cmds, ev, fails, last_fast>>

appState == <<session_percent, session_text, weekly_percent, weekly_text,
              data, poll_interval_ms, retry_count, last_poll_ok>>

-----------------------------------------------------------------------------
(* Bounds of the model *)

MaxTime == 10000        \* the clock stops once it has reached this
TimeStep == 5000        \* grid of the clock between timer deadlines
MaxWorkers == 2         \* do_poll threads alive at once
MaxRetry == 3           \* failures in a row
MaxCommands == 1        \* menu commands of the user
MaxQueue == 2           \* posted notifications waiting
MaxRetryLong == 8       \* failures in a row, polls one at a time
MaxCommandsLong == 9    \* menu commands, polls one at a time
MaxPolls == 2           \* calls of poll() one after the other

-----------------------------------------------------------------------------
(* Program constants *)

None == <<>>
Some(v) == <<v>>
IsSome(o) == o # <<>>
Unwrap(o) == o[1]

Min(a, b) == IF a <= b THEN a ELSE b
Max(a, b) == IF a >= b THEN a ELSE b

(* u32: the model checker's integers are 31 bits wide, so a u32 that can
   exceed them (retry_count, the backoff product) is a pair <<hi, lo>> of 16-bit
   limbs, hi * 65536 + lo. *)
LIMB == 65536
U32_BITS == 32
U32_MAX == <<LIMB - 1, LIMB - 1>>
U32(n) == <<n \div LIMB, n % LIMB>>
U32Int(a) == a[1] * LIMB + a[2]
U32Le(a, b) == a[1] < b[1] \/ (a[1] = b[1] /\ a[2] <= b[2])

(* An increment that is lost *)
saturating_add_0(a) == a

(* u32::saturating_add(self, 1) *)
saturating_add_1(a) ==
    IF a = U32_MAX THEN U32_MAX
    ELSE IF a[2] = LIMB - 1 THEN <<a[1] + 1, 0>> ELSE <<a[1], a[2] + 1>>

(* u32 subtraction of 1 (self - 1): wraps in a release build when self = 0 *)
wrapping_sub_1(a) ==
    IF a = <<0, 0>> THEN U32_MAX
    ELSE IF a[2] = 0 THEN <<a[1] - 1, LIMB - 1>> ELSE <<a[1], a[2] - 1>>

(* A shift that takes its count modulo 32, as 1u32.wrapping_shl(n) does *)
wrapping_shl_1(n) ==
    IF n[2] % U32_BITS < 16 THEN Some(<<0, 2 ^ (n[2] % U32_BITS)>>)
    ELSE Some(<<2 ^ ((n[2] % U32_BITS) - 16), 0>>)

(* 1u32.checked_shl(n): None when n >= 32 *)
checked_shl_1(n) ==
    IF n[1] > 0 \/ n[2] >= U32_BITS THEN None
    ELSE IF n[2] < 16 THEN Some(<<0, 2 ^ n[2]>>) ELSE Some(<<2 ^ (n[2] - 16), 0>>)

(* u32::saturating_mul(m, b), for m < 2^15 *)
saturating_mul(m, b) ==
    LET lo == m * b[2]
        hi == m * b[1] + lo \div LIMB
    IN  IF hi >= LIMB THEN U32_MAX ELSE <<hi, lo % LIMB>>

(* u32::min *)
u32_min(a, b) == IF U32Le(a, b) THEN a ELSE b

RETRY_BASE_MS == 30000
POLL_1_MIN == 60000
POLL_5_MIN == 300000
POLL_15_MIN == 900000
POLL_1_HOUR == 3600000

IDM_FREQ_1MIN == 10
IDM_FREQ_5MIN == 11
IDM_FREQ_15MIN == 12
IDM_FREQ_1HOUR == 13

TIMER_POLL == 1
TIMER_COUNTDOWN == 2
TIMER_RESET_POLL == 3

RESET_POLL_MS == 5000
DEFAULT_COUNTDOWN_SECS == 60

-----------------------------------------------------------------------------
(* models.rs *)

UsageSection(p, r) == [percentage |-> p, resets_at |-> r]
UsageData(s, w) == [session |-> s, weekly |-> w]

(* poller.rs: PollError *)
PollError == {"NoCredentials", "TokenExpired", "AllModelsFailed"}

-----------------------------------------------------------------------------
(* poller.rs: the display formatter *)

(* format!("{:.0}", f64): the decimal expansion rounded to an integer,
   ties to even; p is in tenths. *)
FormatF0(p) ==
    LET a == IF p < 0 THEN -p ELSE p
        q == a \div 10
        r == a % 10
        m == IF r < 5 THEN q
             ELSE IF r > 5 THEN q + 1
             ELSE IF q % 2 = 0 THEN q ELSE q + 1
    IN  (IF p < 0 THEN "-" ELSE "") \o ToString(m)

(* A countdown in clock style: the minutes beyond the whole hours *)
format_countdown_clock(resets_at, t) ==
    IF ~IsSome(resets_at) THEN ""
    ELSE LET reset == Unwrap(resets_at) IN
         IF reset < t THEN "now"
         ELSE LET total_secs == (reset - t) \div 1000
                  total_mins == total_secs \div 60
              IN  IF total_secs >= 86400 THEN ToString(total_secs \div 86400) \o "d"
                  ELSE IF total_mins > 61 THEN ToString(total_secs \div 3600) \o "h"
                  ELSE IF total_secs > 60 THEN ToString(total_mins % 60) \o "m"
                  ELSE ToString(total_secs)

(* fn format_countdown(resets_at) -> String, at clock value t *)
format_countdown(resets_at, t) ==
    IF ~IsSome(resets_at) THEN ""
    ELSE LET reset == Unwrap(resets_at) IN
         IF reset < t THEN "now"
         ELSE LET total_secs == (reset - t) \div 1000
                  total_mins == total_secs \div 60
                  total_hours == total_secs \div 3600
                  total_days == total_secs \div 86400
              IN  IF total_days >= 1 THEN ToString(total_days) \o "d"
                  ELSE IF total_mins > 61 THEN ToString(total_hours) \o "h"
                  ELSE IF total_secs > 60 THEN ToString(total_mins) \o "m"
                  ELSE ToString(total_secs)

(* pub fn format_line(section) -> String *)
format_line(section, t) ==
    LET pct == FormatF0(section.percentage) \o "%"
        cd == format_countdown(section.resets_at, t)
    IN  IF cd = "" THEN pct ELSE pct \o " · " \o cd

time_until_boundary(resets_at, t) ==
    IF ~IsSome(resets_at) THEN None
    ELSE LET reset == Unwrap(resets_at) IN
         IF reset < t THEN None
         ELSE LET remaining == reset - t
                  total_secs == remaining \div 1000
                  next_boundary ==
                      IF total_secs >= 86400 THEN (total_secs \div 86400) * 86400 * 1000
                      ELSE IF total_secs >= 7200 THEN (total_secs \div 3600) * 3600 * 1000
                      ELSE IF total_secs >= 3720 THEN 61 * 60 * 1000
                      ELSE (total_secs \div 60) * 60 * 1000
              IN  IF total_secs <= 60 THEN Some(1000)
                  ELSE Some(Max(remaining - next_boundary, 1000))

time_until_display_change_or_zero(resets_at, t) ==
    IF ~IsSome(resets_at) THEN None
    ELSE IF Unwrap(resets_at) < t THEN Some(0)
    ELSE time_until_boundary(resets_at, t)

(* pub fn time_until_display_change(resets_at) -> Option<Duration>, in ms *)
time_until_display_change(resets_at, t) ==
    IF ~IsSome(resets_at) THEN None
    ELSE LET reset == Unwrap(resets_at) IN
         IF reset < t THEN None
         ELSE LET remaining == reset - t
                  total_secs == remaining \div 1000
                  total_mins == total_secs \div 60
                  total_hours == total_secs \div 3600
                  total_days == total_secs \div 86400
                  next_boundary ==
                      IF total_days >= 1 THEN total_days * 86400 * 1000
                      ELSE IF total_mins > 61 THEN
                          IF total_hours > 1 THEN total_hours * 3600 * 1000
                          ELSE 61 * 60 * 1000
                      ELSE total_mins * 60 * 1000
                  delay == Max(remaining - next_boundary, 0)
              IN  IF total_secs <= 60 THEN Some(1000)
                  ELSE IF delay > 0 THEN Some(delay + 1000)
                  ELSE Some(1000)

(* pub fn is_past_reset(data) -> bool *)
past(s, t) == IsSome(s.resets_at) /\ t >= Unwrap(s.resets_at)
(* is_past_reset answering five seconds early *)
is_past_reset_early(d, t) == past(d.session, t + 5000) \/ past(d.weekly, t + 5000)

is_past_reset(d, t) == past(d.session, t) \/ past(d.weekly, t)

-----------------------------------------------------------------------------
(* Win32 timers of the window (SetTimer / KillTimer / WM_TIMER) *)

TimerIds == {TIMER_POLL, TIMER_COUNTDOWN, TIMER_RESET_POLL}
TimerOff == [on |-> FALSE, period |-> 0, due |-> 0]
Armed(ms, t) == [on |-> TRUE, period |-> ms, due |-> t + ms]

(* SetTimer(hwnd, id, ms, None): creates the timer or replaces it; a replaced
   timer is reset, its period starts again at t. *)
SetTimer(ts, id, ms, t) == [ts EXCEPT ![id] = Armed(ms, t)]
KillTimer(ts, id) == [ts EXCEPT ![id] = TimerOff]
(* A timer that fires once and is gone *)
fire_once(ts, id, t) == [ts EXCEPT ![id] = TimerOff]

(* a periodic timer that fired at t fires again one period later *)
Refire(ts, id, t) == [ts EXCEPT ![id].due = t + ts[id].period]

Due(id) == timers[id].on /\ timers[id].due <= now
NextDue ==
    LET ds == {timers[id].due : id \in {i \in TimerIds : timers[i].on}}
    IN  IF ds = {} THEN now + TimeStep ELSE CHOOSE d \in ds : \A e \in ds : d <= e

-----------------------------------------------------------------------------
(* window.rs: the scheduling computations *)

(* The backoff with the shift taken from retry_count itself instead of
   retry_count - 1: the first retry would wait 60 s. *)
retry_ms_shl_rc(rc, interval) ==
    LET shl == checked_shl_1(rc)
        backoff == saturating_mul(RETRY_BASE_MS,
                                  IF IsSome(shl) THEN Unwrap(shl) ELSE U32_MAX)
    IN  U32Int(u32_min(backoff, U32(interval)))

(* do_poll, Err arm: RETRY_BASE_MS.saturating_mul(
       1u32.checked_shl(retry_count - 1).unwrap_or(u32::MAX)).min(poll_interval_ms)
   with rc the retry_count already incremented *)
retry_ms(rc, interval) ==
    LET shl == checked_shl_1(wrapping_sub_1(rc))
        backoff == saturating_mul(RETRY_BASE_MS,
                                  IF IsSome(shl) THEN Unwrap(shl) ELSE U32_MAX)
    IN  U32Int(u32_min(backoff, U32(interval)))

(* The Ok arm restoring the interval on every success, not only after errors *)
recovered_always(rc) == TRUE

(* An Ok arm that never sees a recovery *)
recovered_never(rc) == FALSE

(* do_poll, Ok arm: "Recovered from errors: restore normal poll interval" *)
recovered(rc) == U32Int(rc) > 0

(* The countdown delay without the 60 s default: 1 s when no window gives a
   delay *)
countdown_ms_no_default(d, t) ==
    LET session_delay == time_until_display_change(d.session.resets_at, t)
        weekly_delay == time_until_display_change(d.weekly.resets_at, t)
        delays == {Unwrap(x) : x \in {y \in {session_delay, weekly_delay} : IsSome(y)}}
    IN  IF delays = {} THEN 1000
        ELSE Max(CHOOSE a \in delays : \A b \in delays : a <= b, 1000)

(* fn schedule_countdown_timer(): the timers it leaves, given AppState.data *)
countdown_ms(d, t) ==
    LET session_delay == time_until_display_change(d.session.resets_at, t)
        weekly_delay == time_until_display_change(d.weekly.resets_at, t)
        min_delay ==
            IF IsSome(session_delay) /\ IsSome(weekly_delay)
                THEN Some(Min(Unwrap(session_delay), Unwrap(weekly_delay)))
            ELSE IF IsSome(session_delay) THEN session_delay
            ELSE IF IsSome(weekly_delay) THEN weekly_delay
            ELSE None
    IN  Max(IF IsSome(min_delay) THEN Unwrap(min_delay)
            ELSE DEFAULT_COUNTDOWN_SECS * 1000, 1000)

(* schedule_countdown_timer() without the is_past_reset block *)
schedule_countdown_only(ts, dat, t) ==
    IF ~IsSome(dat) THEN ts
    ELSE SetTimer(ts, TIMER_COUNTDOWN, countdown_ms(Unwrap(dat), t), t)

(* schedule_countdown_timer() taking the poll timer in hand as well *)
schedule_countdown_and_poll(ts, dat, t) ==
    SetTimer(schedule_countdown_only(ts, dat, t), TIMER_POLL, RETRY_BASE_MS, t)

schedule_countdown_timer(ts, dat, t) ==
    IF ~IsSome(dat) THEN ts
    ELSE LET d == Unwrap(dat)
             ts1 == IF is_past_reset(d, t)
                    THEN SetTimer(ts, TIMER_RESET_POLL, RESET_POLL_MS, t)
                    ELSE ts
         IN  SetTimer(ts1, TIMER_COUNTDOWN, countdown_ms(d, t), t)

(* update_display() without its last_poll_ok test *)
update_display_never_skips == FALSE

(* fn update_display(): "Don't overwrite error text with stale cached data" *)
update_display_skips == ~last_poll_ok

(* A lock that never waits *)
lock_state_no_wait == TRUE

(* fn lock_state(): STATE.lock() returns once no other thread holds the guard *)
lock_state == mutex = 0

(* The IDM_FREQ_* handler storing the interval without touching the timer *)
freq_timer_kept(ts, ms, t) == ts

(* WM_COMMAND IDM_FREQ_*: "Reset the poll timer with the new interval",
   whatever retry_count is *)
freq_timer(ts, ms, t) == SetTimer(ts, TIMER_POLL, ms, t)

(* WM_COMMAND IDM_FREQ_*: the interval a menu item selects *)
FreqIds == {IDM_FREQ_1MIN, IDM_FREQ_5MIN, IDM_FREQ_15MIN, IDM_FREQ_1HOUR}
new_interval(id) ==
    IF id = IDM_FREQ_1MIN THEN POLL_1_MIN
    ELSE IF id = IDM_FREQ_5MIN THEN POLL_5_MIN
    ELSE IF id = IDM_FREQ_15MIN THEN POLL_15_MIN
    ELSE IF id = IDM_FREQ_1HOUR THEN POLL_1_HOUR
    ELSE POLL_15_MIN

-----------------------------------------------------------------------------
(* poller.rs: header parsing.  A response is its HTTP status and its headers,
   a header is None or Some(string). *)

H_5H_UTIL == "anthropic-ratelimit-unified-5h-utilization"
H_7D_UTIL == "anthropic-ratelimit-unified-7d-utilization"
H_5H_RESET == "anthropic-ratelimit-unified-5h-reset"
H_7D_RESET == "anthropic-ratelimit-unified-7d-reset"
H_RESET == "anthropic-ratelimit-unified-reset"
H_STATUS == "anthropic-ratelimit-unified-status"
H_CLAIM == "anthropic-ratelimit-unified-representative-claim"
HeaderNames == {H_5H_UTIL, H_7D_UTIL, H_5H_RESET, H_7D_RESET, H_RESET, H_STATUS, H_CLAIM}

(* response.header(name) *)
header(response, name) == response.headers[name]

(* str::parse::<f64>() on the strings the model sends, in thousandths *)
parse_f64(str) ==
    CASE str = "0" -> Some(0)
      [] str = "0.0" -> Some(0)
      [] str = "0.1" -> Some(100)
      [] str = "0.42" -> Some(420)
      [] str = "1" -> Some(1000)
      [] str = "1.5" -> Some(1500)
      [] OTHER -> None

(* str::parse::<i64>() on the strings the model sends *)
parse_i64(str) ==
    CASE str = "0" -> Some(0)
      [] str = "-1" -> Some(-1)
      [] str = "-86400" -> Some(-86400)
      [] str = "3" -> Some(3)
      [] str = "10800" -> Some(10800)
      [] str = "432000" -> Some(432000)
      [] OTHER -> None

(* fn get_header_f64(): .and_then(parse).unwrap_or(0.0), in thousandths *)
get_header_f64(response, name) ==
    LET h == header(response, name)
        v == IF IsSome(h) THEN parse_f64(Unwrap(h)) ELSE None
    IN  IF IsSome(v) THEN Unwrap(v) ELSE 0

(* fn get_header_i64() -> Option<i64> *)
get_header_i64(response, name) ==
    LET h == header(response, name)
    IN  IF IsSome(h) THEN parse_i64(Unwrap(h)) ELSE None

(* fn get_header_str() -> Option<String> *)
get_header_str(response, name) == header(response, name)

unix_to_system_time_signed(unix_secs) ==
    IF ~IsSome(unix_secs) THEN None ELSE Some(Unwrap(unix_secs) * 1000)

(* fn unix_to_system_time(unix_secs) -> Option<SystemTime>, in ms *)
unix_to_system_time(unix_secs) ==
    IF ~IsSome(unix_secs) THEN None
    ELSE IF Unwrap(unix_secs) < 0 THEN None
    ELSE Some(Unwrap(unix_secs) * 1000)

(* utilization * 100.0 is the percentage; the model keeps it in tenths *)
percent_of(thousandths) == (thousandths * 100 * 10) \div 1000

has_recognized_header(response) ==
    \E name \in HeaderNames : IsSome(header(response, name))

(* try_model: has_rate_limit_headers *)
has_rate_limit_headers(response) ==
    \/ IsSome(header(response, H_5H_UTIL))
    \/ IsSome(header(response, H_7D_UTIL))
    \/ IsSome(header(response, H_STATUS))

parse_headers_any_rejected(response) ==
    LET claim == get_header_str(response, H_CLAIM)
        rejected == get_header_str(response, H_STATUS) = Some("rejected")
        session_pct == percent_of(get_header_f64(response, H_5H_UTIL))
        weekly_pct == percent_of(get_header_f64(response, H_7D_UTIL))
    IN  UsageData(
            UsageSection(IF rejected /\ claim = Some("five_hour") THEN 1000 ELSE session_pct,
                         unix_to_system_time(get_header_i64(response, H_5H_RESET))),
            UsageSection(IF rejected /\ claim = Some("seven_day") THEN 1000 ELSE weekly_pct,
                         unix_to_system_time(get_header_i64(response, H_7D_RESET))))


(* parse_headers with the overall reset read inside the "rejected" branch *)
parse_headers_fill_if_rejected(response) ==
    LET session_pct == percent_of(get_header_f64(response, H_5H_UTIL))
        session_reset == unix_to_system_time(get_header_i64(response, H_5H_RESET))
        weekly_pct == percent_of(get_header_f64(response, H_7D_UTIL))
        weekly_reset == unix_to_system_time(get_header_i64(response, H_7D_RESET))
        overall_reset == get_header_i64(response, H_RESET)
        both_zero == session_pct = 0 /\ weekly_pct = 0
        rejected == both_zero /\ get_header_str(response, H_STATUS) = Some("rejected")
        claim == get_header_str(response, H_CLAIM)
        session_pct2 == IF rejected /\ claim = Some("five_hour") THEN 1000 ELSE session_pct
        weekly_pct2 == IF rejected /\ claim = Some("seven_day") THEN 1000 ELSE weekly_pct
        session_reset2 ==
            IF rejected /\ ~IsSome(session_reset) /\ IsSome(overall_reset)
            THEN unix_to_system_time(overall_reset)
            ELSE session_reset
    IN  UsageData(UsageSection(session_pct2, session_reset2),
                  UsageSection(weekly_pct2, weekly_reset))

(* fn parse_headers(response) -> UsageData *)
parse_headers(response) ==
    LET session_pct == percent_of(get_header_f64(response, H_5H_UTIL))
        session_reset == unix_to_system_time(get_header_i64(response, H_5H_RESET))
        weekly_pct == percent_of(get_header_f64(response, H_7D_UTIL))
        weekly_reset == unix_to_system_time(get_header_i64(response, H_7D_RESET))
        overall_reset == get_header_i64(response, H_RESET)
        both_zero == session_pct = 0 /\ weekly_pct = 0
        rejected == both_zero /\ get_header_str(response, H_STATUS) = Some("rejected")
        claim == get_header_str(response, H_CLAIM)
        session_pct2 == IF rejected /\ claim = Some("five_hour") THEN 1000 ELSE session_pct
        weekly_pct2 == IF rejected /\ claim = Some("seven_day") THEN 1000 ELSE weekly_pct
        session_reset2 ==
            IF both_zero /\ ~IsSome(session_reset) /\ IsSome(overall_reset)
            THEN unix_to_system_time(overall_reset)
            ELSE session_reset
    IN  UsageData(UsageSection(session_pct2, session_reset2),
                  UsageSection(weekly_pct2, weekly_reset))

(* fn try_model(token, model) -> Option<UsageData>; reply is "transport" when
   no response came, else the response, whatever its HTTP status *)
try_model(reply) ==
    IF reply.kind = "transport" THEN None
    ELSE IF has_rate_limit_headers(reply) THEN Some(parse_headers(reply))
    ELSE None

-----------------------------------------------------------------------------
(* poller.rs: credentials and token.  A JSON member is None when the key is
   missing, else Some(<<type, value>>). *)

MODEL_FALLBACK_CHAIN == <<"claude-3-haiku-20240307", "claude-haiku-4-5-20251001">>

(* serde_json::Value::as_str / as_i64 on an optional member *)
as_str(member) ==
    IF IsSome(member) /\ Unwrap(member)[1] = "str" THEN Some(Unwrap(member)[2]) ELSE None
as_i64(member) ==
    IF IsSome(member) /\ Unwrap(member)[1] = "num" THEN Some(Unwrap(member)[2]) ELSE None

read_credentials_all_strings(file) ==
    IF file.kind # "json" THEN None
    ELSE IF ~IsSome(file.oauth) THEN None
    ELSE LET oauth == Unwrap(file.oauth)
         IN  IF \E m \in {oauth.accessToken, oauth.refreshToken} : ~IsSome(as_str(m))
             THEN None
             ELSE Some([access_token |-> Unwrap(as_str(oauth.accessToken)),
                        refresh_token |-> as_str(oauth.refreshToken),
                        expires_at |-> as_i64(oauth.expiresAt)])

(* fn read_credentials() -> Option<Credentials>; file is what the home
   directory and ~/.claude/.credentials.json hold *)
read_credentials(file) ==
    IF file.kind # "json" THEN None
    ELSE IF ~IsSome(file.oauth) THEN None
    ELSE LET oauth == Unwrap(file.oauth)
             access_token == as_str(oauth.accessToken)
         IN  IF ~IsSome(access_token) THEN None
             ELSE Some([access_token |-> Unwrap(access_token),
                        refresh_token |-> as_str(oauth.refreshToken),
                        expires_at |-> as_i64(oauth.expiresAt)])

is_token_expired_after(expires_at, t) ==
    IF ~IsSome(expires_at) THEN FALSE ELSE t > Unwrap(expires_at)

(* fn is_token_expired(expires_at) -> bool, at clock value t *)
is_token_expired(expires_at, t) ==
    IF ~IsSome(expires_at) THEN FALSE ELSE t >= Unwrap(expires_at)

(* fn refresh_access_token(refresh_token) -> Result<String, String>: None is
   Err; reply is what the token endpoint answers *)
refresh_access_token(reply) ==
    IF reply.kind # "json" THEN None ELSE as_str(reply.access_token)

-----------------------------------------------------------------------------
(* Inputs: what poller::poll() can return *)

ResetSoon == Some(3000)
ResetHours == Some(10800000)
ResetDays == Some(432000000)

DataSet ==
    { UsageData(UsageSection(420, ResetSoon), UsageSection(100, None)),
      UsageData(UsageSection(425, ResetHours), UsageSection(105, ResetDays)),
      UsageData(UsageSection(0, None), UsageSection(0, None)) }

-----------------------------------------------------------------------------
(* Threads *)

Workers == 1..MaxWorkers
IdleWorker == [pc |-> "idle", data |-> None, ok |-> FALSE]
FreeWorkers == {w \in Workers : workers[w].pc = "idle"}
InFlight == {w \in Workers : workers[w].pc # "idle"}

(* A dispatch that starts no thread while a poll is outstanding *)
spawn_unless_in_flight(ws) ==
    IF InFlight # {} THEN ws
    ELSE LET w == CHOOSE x \in FreeWorkers : \A y \in FreeWorkers : x <= y
         IN  [ws EXCEPT ![w] = [IdleWorker EXCEPT !.pc = "poll"]]

(* A dispatch that leaves the first poll to the poll timer *)
spawn_after_start(ws) ==
    IF main.pc = "start" THEN ws
    ELSE LET w == CHOOSE x \in FreeWorkers : \A y \in FreeWorkers : x <= y
         IN  [ws EXCEPT ![w] = [IdleWorker EXCEPT !.pc = "poll"]]

(* std::thread::spawn(move || do_poll(sh)) *)
spawn(ws) ==
    LET w == CHOOSE x \in FreeWorkers : \A y \in FreeWorkers : x <= y
    IN  [ws EXCEPT ![w] = [IdleWorker EXCEPT !.pc = "poll"]]

MainIdle == [pc |-> "idle", arg |-> 0]
Idle == main.pc = "idle"


-----------------------------------------------------------------------------
(* Init: AppState as run() constructs it (window.rs 238-256); no timer is
   set yet and no thread is spawned. *)

InitWidget ==
    /\ now = 0
    /\ session_percent = 0
    /\ session_text = "--"
    /\ weekly_percent = 0
    /\ weekly_text = "--"
    /\ data = None
    /\ poll_interval_ms = POLL_15_MIN
    /\ retry_count = U32(0)
    /\ last_poll_ok = FALSE
    /\ timers = [id \in TimerIds |-> TimerOff]
    /\ mutex = 0
    /\ workers = [w \in Workers |-> IdleWorker]
    /\ main = [pc |-> "start", arg |-> 0]
    /\ queue = <<>>
    /\ cmds = 0
    /\ ev = "Init"
    /\ fails = 0
    /\ last_fast = None

Init ==
    /\ InitWidget
    /\ call = None
    /\ hdr = None
    /\ fmt = None

(* history of the fast-repoll timer: the time it was activated or last fired,
   None while it is off *)
FastSince(ts, fired) ==
    IF ~ts[TIMER_RESET_POLL].on THEN None
    ELSE IF fired \/ ~IsSome(last_fast) THEN Some(now)
    ELSE last_fast

-----------------------------------------------------------------------------
(* run(), window.rs 300-311: arm the poll timer, spawn the initial poll, enter
   the message loop. *)
run_window ==
    /\ main.pc = "start"
    /\ lock_state
    /\ timers' = SetTimer(timers, TIMER_POLL, poll_interval_ms, now)
    /\ workers' = spawn(workers)
    /\ main' = MainIdle
    /\ ev' = "Start"
    /\ UNCHANGED <<cmds, now, appState, mutex, queue, fails, last_fast>>

(* run() while no call of poll(), try_model or the formatter is followed on its
   own *)
Start ==
    /\ run_window
    /\ UNCHANGED unitVars

(* The clock moves to the next timer deadline or, when that comes first, to the
   next point of a coarse grid. *)
NextGrid == (now \div TimeStep + 1) * TimeStep

(* The clock: advances while the loop has nothing to handle and every thread
   is either inside poll() or gone. *)
AdvanceTime ==
    /\ now < MaxTime
    /\ Idle
    /\ queue = <<>>
    /\ mutex = 0
    /\ \A w \in Workers : workers[w].pc \in {"idle", "poll"}
    /\ \E t \in {NextGrid, NextDue} :
          /\ t > now
          /\ t <= NextDue
          /\ now' = t
    /\ ev' = "AdvanceTime"
    /\ UNCHANGED <<cmds, appState, timers, mutex, workers, main, queue, fails, last_fast>>
    /\ UNCHANGED unitVars

-----------------------------------------------------------------------------
(* do_poll on a worker thread *)

(* poller::poll() returns Ok(data): the two lines are formatted (window.rs
   551-554), then the lock is taken and the first writes are made (556-567):
   percentages and texts, and the fast poll is stopped if the reset data is
   fresh.  The thread-local part is one step with taking the lock. *)
do_poll_ok_arm(w) ==
    /\ workers[w].pc = "poll"
    /\ lock_state
    /\ mutex' = w
    /\ \E d \in DataSet :
          /\ session_percent' = d.session.percentage
          /\ weekly_percent' = d.weekly.percentage
          /\ session_text' = format_line(d.session, now)
          /\ weekly_text' = format_line(d.weekly, now)
          /\ timers' = IF ~is_past_reset(d, now)
                       THEN KillTimer(timers, TIMER_RESET_POLL)
                       ELSE timers
          /\ workers' = [workers EXCEPT ![w] =
                             [pc |-> "locked", data |-> Some(d), ok |-> TRUE]]
    /\ last_fast' = FastSince(timers', FALSE)
    /\ ev' = "do_poll_ok_lock"
    /\ UNCHANGED <<cmds, now, data, poll_interval_ms, retry_count, last_poll_ok,
                   main, queue, fails>>

(* the first half of the Ok arm, in the run of the widget *)
do_poll_ok_lock(w) ==
    /\ do_poll_ok_arm(w)
    /\ UNCHANGED unitVars

(* Ok arm, window.rs 569-580: data, last_poll_ok, recovery; unlock. *)
do_poll_ok_commit(w) ==
    /\ workers[w].pc = "locked"
    /\ data' = workers[w].data
    /\ last_poll_ok' = TRUE
    /\ IF recovered(retry_count)
       THEN /\ retry_count' = U32(0)
            /\ timers' = SetTimer(timers, TIMER_POLL, poll_interval_ms, now)
       ELSE UNCHANGED <<retry_count, timers>>
    /\ mutex' = 0
    /\ workers' = [workers EXCEPT ![w] = [pc |-> "post", data |-> None, ok |-> TRUE]]
    /\ fails' = 0
    /\ ev' = IF recovered(retry_count) THEN "PollRecovered" ELSE "PollSucceeded"
    /\ UNCHANGED <<now, session_percent, session_text, weekly_percent,
                   weekly_text, poll_interval_ms, main, queue, cmds, last_fast>>
    /\ UNCHANGED unitVars

(* An Err arm that empties the bars as well *)
do_poll_err_arm_clears(w, e) ==
    /\ workers[w].pc = "poll"
    /\ lock_state
    /\ session_text' = "..."
    /\ weekly_text' = "..."
    /\ session_percent' = 0
    /\ weekly_percent' = 0
    /\ last_poll_ok' = FALSE
    /\ retry_count' = saturating_add_1(retry_count)
    /\ timers' = SetTimer(timers, TIMER_POLL,
                          retry_ms(retry_count', poll_interval_ms), now)
    /\ workers' = [workers EXCEPT ![w] = [pc |-> "post", data |-> None, ok |-> FALSE]]
    /\ fails' = fails + 1
    /\ ev' = e
    /\ UNCHANGED <<cmds, now, data, poll_interval_ms, mutex, main, queue, last_fast>>

(* poller::poll() returns Err(e); Err arm, window.rs 586-603: one critical
   section. *)
do_poll_err_arm(w, e) ==
    /\ workers[w].pc = "poll"
    /\ lock_state
    /\ session_text' = "..."
    /\ weekly_text' = "..."
    /\ last_poll_ok' = FALSE
    /\ retry_count' = saturating_add_1(retry_count)
    /\ timers' = SetTimer(timers, TIMER_POLL,
                          retry_ms(retry_count', poll_interval_ms), now)
    /\ workers' = [workers EXCEPT ![w] = [pc |-> "post", data |-> None, ok |-> FALSE]]
    /\ fails' = fails + 1
    /\ ev' = e
    /\ UNCHANGED <<cmds, now, session_percent, weekly_percent, data,
                   poll_interval_ms, mutex, main, queue, last_fast>>

(* the Err arm, in the run of the widget *)
do_poll_err(w, e) ==
    /\ do_poll_err_arm(w, e)
    /\ UNCHANGED unitVars

(* A thread that ends without posting *)
do_poll_no_post(w) ==
    /\ workers[w].pc = "post"
    /\ workers' = [workers EXCEPT ![w] = IdleWorker]
    /\ ev' = "PostMessage"
    /\ UNCHANGED <<cmds, now, appState, timers, mutex, main, queue, fails, last_fast>>
    /\ UNCHANGED unitVars

(* PostMessageW(hwnd, WM_APP_USAGE_UPDATED), window.rs 582-584 and 605-607;
   the thread ends. *)
do_poll_post(w) ==
    /\ workers[w].pc = "post"
    /\ queue' = Append(queue, workers[w].ok)
    /\ workers' = [workers EXCEPT ![w] = IdleWorker]
    /\ ev' = "PostMessage"
    /\ UNCHANGED <<cmds, now, appState, timers, mutex, main, fails, last_fast>>
    /\ UNCHANGED unitVars

-----------------------------------------------------------------------------
(* wnd_proc on the message-loop thread *)

(* WM_TIMER is generated only when no posted message is waiting. *)
TimerMessage(id) == Idle /\ queue = <<>> /\ Due(id)

(* WM_TIMER, TIMER_POLL (window.rs 811-816) *)
wm_timer_poll ==
    /\ TimerMessage(TIMER_POLL)
    /\ FreeWorkers # {}
    /\ timers' = Refire(timers, TIMER_POLL, now)
    /\ workers' = spawn(workers)
    /\ ev' = "TIMER_POLL"
    /\ UNCHANGED <<cmds, now, appState, mutex, main, queue, fails, last_fast>>

(* WM_TIMER, TIMER_POLL, in the run of the widget *)
WM_TIMER_POLL ==
    /\ wm_timer_poll
    /\ UNCHANGED unitVars

(* WM_TIMER, TIMER_RESET_POLL (window.rs 822-827) *)
wm_timer_reset_poll ==
    /\ TimerMessage(TIMER_RESET_POLL)
    /\ FreeWorkers # {}
    /\ timers' = Refire(timers, TIMER_RESET_POLL, now)
    /\ workers' = spawn(workers)
    /\ last_fast' = FastSince(timers', TRUE)
    /\ ev' = "TIMER_RESET_POLL"
    /\ UNCHANGED <<cmds, now, appState, mutex, main, queue, fails>>

(* WM_TIMER, TIMER_RESET_POLL, in the run of the widget *)
WM_TIMER_RESET_POLL ==
    /\ wm_timer_reset_poll
    /\ UNCHANGED unitVars

(* WM_TIMER, TIMER_COUNTDOWN, first call: update_display() (window.rs 818,
   673-689) *)
WM_TIMER_COUNTDOWN ==
    /\ TimerMessage(TIMER_COUNTDOWN)
    /\ lock_state
    /\ timers' = Refire(timers, TIMER_COUNTDOWN, now)
    /\ IF update_display_skips \/ ~IsSome(data)
       THEN UNCHANGED <<session_text, weekly_text>>
       ELSE /\ session_text' = format_line(Unwrap(data).session, now)
            /\ weekly_text' = format_line(Unwrap(data).weekly, now)
    /\ main' = [pc |-> "countdown", arg |-> 0]
    /\ ev' = "update_display"
    /\ UNCHANGED <<now, session_percent, weekly_percent, data, poll_interval_ms,
                   retry_count, last_poll_ok, mutex, workers, queue, cmds, fails,
                   last_fast>>
    /\ UNCHANGED unitVars

(* WM_TIMER, TIMER_COUNTDOWN, after render_layered():
   schedule_countdown_timer() (window.rs 820, 612-651) *)
countdown_schedule ==
    /\ main.pc = "countdown"
    /\ lock_state
    /\ timers' = schedule_countdown_timer(timers, data, now)
    /\ last_fast' = FastSince(timers', FALSE)
    /\ main' = MainIdle
    /\ ev' = "CountdownTick"
    /\ UNCHANGED <<cmds, now, appState, mutex, workers, queue, fails>>
    /\ UNCHANGED unitVars

(* WM_APP_USAGE_UPDATED (window.rs 832-837) *)
WM_APP_USAGE_UPDATED ==
    /\ Idle
    /\ queue # <<>>
    /\ lock_state
    /\ queue' = Tail(queue)
    /\ timers' = schedule_countdown_timer(timers, data, now)
    /\ last_fast' = FastSince(timers', FALSE)
    /\ ev' = IF Head(queue) THEN "UsageUpdatedOk" ELSE "UsageUpdatedErr"
    /\ UNCHANGED <<cmds, now, appState, mutex, workers, main, fails>>
    /\ UNCHANGED unitVars

(* WM_COMMAND 1, "Refresh" (window.rs 845-858) *)
wm_command_refresh ==
    /\ Idle
    /\ lock_state
    /\ FreeWorkers # {}
    /\ session_text' = "..."
    /\ weekly_text' = "..."
    /\ workers' = spawn(workers)
    /\ cmds' = cmds + 1
    /\ ev' = "Refresh"
    /\ UNCHANGED <<now, session_percent, weekly_percent, data, poll_interval_ms,
                   retry_count, last_poll_ok, timers, mutex, main, queue, fails,
                   last_fast>>

(* WM_COMMAND 1, in the run of the widget *)
WM_COMMAND_refresh ==
    /\ wm_command_refresh
    /\ UNCHANGED unitVars

(* WM_COMMAND IDM_FREQ_*, the locked block (window.rs 872-885) *)
WM_COMMAND_freq(id) ==
    /\ Idle
    /\ lock_state
    /\ poll_interval_ms' = new_interval(id)
    /\ main' = [pc |-> "freq", arg |-> new_interval(id)]
    /\ cmds' = cmds + 1
    /\ ev' = "freq_store"
    /\ UNCHANGED <<now, session_percent, session_text, weekly_percent,
                   weekly_text, data, retry_count, last_poll_ok, timers, mutex,
                   workers, queue, fails, last_fast>>
    /\ UNCHANGED unitVars

(* WM_COMMAND IDM_FREQ_*, "Reset the poll timer with the new interval"
   (window.rs 886-887) *)
freq_SetTimer ==
    /\ main.pc = "freq"
    /\ timers' = freq_timer(timers, main.arg, now)
    /\ main' = MainIdle
    /\ ev' = "UserChangedInterval"
    /\ UNCHANGED <<cmds, now, appState, mutex, workers, queue, fails, last_fast>>
    /\ UNCHANGED unitVars

-----------------------------------------------------------------------------

Next ==
    \/ Start
    \/ AdvanceTime
    \/ \E w \in Workers : do_poll_ok_lock(w)
    \/ \E w \in Workers : do_poll_ok_commit(w)
    \/ \E w \in Workers, e \in PollError :
          U32Int(retry_count) < MaxRetry /\ do_poll_err(w, e)
    \/ \E w \in Workers : Len(queue) < MaxQueue /\ do_poll_post(w)
    \/ WM_TIMER_POLL
    \/ WM_TIMER_RESET_POLL
    \/ WM_TIMER_COUNTDOWN
    \/ countdown_schedule
    \/ WM_APP_USAGE_UPDATED
    \/ cmds < MaxCommands /\ WM_COMMAND_refresh
    \/ \E id \in FreqIds : cmds < MaxCommands /\ WM_COMMAND_freq(id)
    \/ freq_SetTimer

Spec == Init /\ [][Next]_vars

(* Polls one at a time, dispatched by the Refresh command only: the clock
   stands still, so no timer fires. *)
NextBackoff ==
    \/ Start
    \/ \E w \in Workers : do_poll_ok_lock(w)
    \/ \E w \in Workers : do_poll_ok_commit(w)
    \/ \E w \in Workers, e \in PollError :
          U32Int(retry_count) < MaxRetryLong /\ do_poll_err(w, e)
    \/ \E w \in Workers : do_poll_post(w)
    \/ WM_APP_USAGE_UPDATED
    \/ InFlight = {} /\ queue = <<>> /\ cmds < MaxCommandsLong /\ WM_COMMAND_refresh
    \/ \E id \in FreqIds :
          InFlight = {} /\ queue = <<>> /\ cmds < MaxCommandsLong /\ WM_COMMAND_freq(id)
    \/ freq_SetTimer

SpecBackoff == Init /\ [][NextBackoff]_vars

-----------------------------------------------------------------------------
(* The arithmetic of the Err arm on its own: failures in a row from any
   retry_count a u32 can hold, with each interval of the menu. *)

MaxFailures == 2        \* failures in a row, from any retry_count

(* retry_count before the first failure *)
RetryCounts ==
    {U32(n) : n \in 0..40} \cup {<<0, LIMB - 1>>, <<1, 0>>, <<LIMB \div 2, 0>>,
                                 <<LIMB - 1, LIMB - 3>>, <<LIMB - 1, LIMB - 2>>, U32_MAX}

InitRetry ==
    /\ InitWidget
    /\ hdr = None
    /\ fmt = None
    /\ \E rc \in RetryCounts, id \in FreqIds :
          call = [retry_count |-> rc, poll_interval_ms |-> new_interval(id),
                  before |-> <<>>, shl |-> <<>>, backoff |-> <<>>, retry_ms |-> <<>>]

(* do_poll, Err arm, window.rs 594-602: the count goes up and the delay of the
   poll timer is computed from it *)
err_arm_retry_ms ==
    /\ Len(call.retry_ms) < MaxFailures
    /\ LET rc == saturating_add_1(call.retry_count)
           shl == checked_shl_1(wrapping_sub_1(rc))
           backoff == saturating_mul(RETRY_BASE_MS,
                                     IF IsSome(shl) THEN Unwrap(shl) ELSE U32_MAX)
       IN  call' = [call EXCEPT !.retry_count = rc,
                                !.before = Append(@, call.retry_count),
                                !.shl = Append(@, shl),
                                !.backoff = Append(@, backoff),
                                !.retry_ms = Append(@, retry_ms(rc, call.poll_interval_ms))]
    /\ UNCHANGED <<widgetVars, hdr, fmt>>

NextRetry ==
    \/ err_arm_retry_ms

SpecRetry == InitRetry /\ [][NextRetry]_vars

-----------------------------------------------------------------------------
(* The run of the widget with a record of its polls kept in call: the polls in
   flight in the order of their dispatch, the threads a later poll has
   overtaken, and the last failure on record. *)

InitTrace ==
    /\ InitWidget
    /\ hdr = None
    /\ fmt = None
    /\ call = [order |-> <<>>, overtaken |-> {}, failed |-> None]

(* the thread std::thread::spawn starts: the one spawn() picks *)
Spawned == CHOOSE x \in FreeWorkers : \A y \in FreeWorkers : x <= y

(* the threads dispatched before w that have not written their outcome *)
Earlier_in_flight(w) ==
    {call.order[i] : i \in {j \in 1..Len(call.order) :
                              \E k \in (j + 1)..Len(call.order) : call.order[k] = w}}

(* a poll is dispatched *)
Dispatched ==
    /\ call' = [call EXCEPT !.order = Append(@, Spawned),
                            !.overtaken = @ \ {Spawned}]
    /\ UNCHANGED <<hdr, fmt>>

(* thread w writes its outcome; failure is None, or the time of the failure
   and the delay it set the poll timer to *)
Completed(w, failure) ==
    /\ call' = [call EXCEPT !.order = SelectSeq(@, LAMBDA v : v # w),
                            !.overtaken = (@ \ {w}) \cup Earlier_in_flight(w),
                            !.failed = failure]
    /\ UNCHANGED <<hdr, fmt>>

NextTrace ==
    \/ run_window /\ Dispatched
    \/ AdvanceTime
    \/ \E w \in Workers : do_poll_ok_arm(w) /\ Completed(w, None)
    \/ \E w \in Workers : do_poll_ok_commit(w)
    \/ \E w \in Workers, e \in PollError :
          /\ U32Int(retry_count) < MaxRetry
          /\ do_poll_err_arm(w, e)
          /\ Completed(w, Some([at |-> now, delay |-> timers'[TIMER_POLL].period]))
    \/ \E w \in Workers : Len(queue) < MaxQueue /\ do_poll_post(w)
    \/ wm_timer_poll /\ Dispatched
    \/ wm_timer_reset_poll /\ Dispatched
    \/ WM_TIMER_COUNTDOWN
    \/ countdown_schedule
    \/ WM_APP_USAGE_UPDATED
    \/ cmds < MaxCommands /\ wm_command_refresh /\ Dispatched
    \/ \E id \in FreqIds : cmds < MaxCommands /\ WM_COMMAND_freq(id)
    \/ freq_SetTimer

SpecTrace == InitTrace /\ [][NextTrace]_vars

-----------------------------------------------------------------------------
(* The widget running without end.  The clock is kept relative: time going by
   leaves now where it is and brings every stored instant (timer deadlines,
   reset times) nearer by the time elapsed, which is the same run of the
   program seen from the current instant.  A reset time that has passed is
   kept as "1 ms ago": no computation of the program depends on how long ago
   it passed.  The user picks a polling interval only right after a poll was
   dispatched by Start or by the poll timer. *)

Earlier(instant, ms) == IF instant - ms < now THEN now - 1 ELSE instant - ms

ElapseSection(section, ms) ==
    IF IsSome(section.resets_at)
    THEN [section EXCEPT !.resets_at = Some(Earlier(Unwrap(section.resets_at), ms))]
    ELSE section

ElapseData(dat, ms) ==
    IF IsSome(dat)
    THEN Some(UsageData(ElapseSection(Unwrap(dat).session, ms),
                        ElapseSection(Unwrap(dat).weekly, ms)))
    ELSE dat

ElapseTimers(ts, ms) ==
    [id \in TimerIds |-> IF ts[id].on THEN [ts[id] EXCEPT !.due = @ - ms] ELSE ts[id]]

(* Time goes by until the next timer deadline, while the loop has nothing to
   handle and no poll is under way: a poll is taken to be short against the
   timers, it returns before the next deadline. *)
Elapse ==
    /\ Idle
    /\ queue = <<>>
    /\ mutex = 0
    /\ \A w \in Workers : workers[w].pc = "idle"
    /\ NextDue > now
    /\ timers' = ElapseTimers(timers, NextDue - now)
    /\ data' = ElapseData(data, NextDue - now)
    /\ ev' = "Elapse"
    /\ UNCHANGED <<cmds, now, session_percent, session_text, weekly_percent,
                   weekly_text, poll_interval_ms, retry_count, last_poll_ok,
                   mutex, workers, main, queue, fails, last_fast>>
    /\ UNCHANGED unitVars

(* poll() returns; of the data it can return, those with a reset time hours
   or days ahead are left out here *)
do_poll_returns ==
    \E w \in Workers :
        \/ do_poll_ok_lock(w) /\ ~IsSome(Unwrap(workers'[w].data).weekly.resets_at)
        \/ \E e \in PollError : U32Int(retry_count) < MaxRetry /\ do_poll_err(w, e)
do_poll_commits == \E w \in Workers : do_poll_ok_commit(w)
do_poll_posts == \E w \in Workers : Len(queue) < MaxQueue /\ do_poll_post(w)

NextLive ==
    \/ Start
    \/ Elapse
    \/ do_poll_returns
    \/ do_poll_commits
    \/ do_poll_posts
    \/ WM_TIMER_POLL
    \/ WM_TIMER_RESET_POLL
    \/ WM_TIMER_COUNTDOWN
    \/ countdown_schedule
    \/ WM_APP_USAGE_UPDATED
    \/ \E id \in FreqIds :
          ev \in {"Start", "TIMER_POLL"} /\ cmds < MaxCommands /\ WM_COMMAND_freq(id)
    \/ freq_SetTimer

(* Every thread runs on, every message and every due timer is delivered, time
   goes by; the user owes no command. *)
Fairness ==
    /\ WF_vars(Start)
    /\ WF_vars(Elapse)
    /\ WF_vars(do_poll_returns)
    /\ WF_vars(do_poll_commits)
    /\ WF_vars(do_poll_posts)
    /\ WF_vars(WM_TIMER_POLL)
    /\ WF_vars(WM_TIMER_RESET_POLL)
    /\ WF_vars(WM_TIMER_COUNTDOWN)
    /\ WF_vars(countdown_schedule)
    /\ WF_vars(WM_APP_USAGE_UPDATED)
    /\ WF_vars(freq_SetTimer)

SpecLive == Init /\ [][NextLive]_vars /\ Fairness

-----------------------------------------------------------------------------
(* poller::poll() followed step by step, on its own.  call holds what the
   environment will answer (the credentials file, the token endpoint's reply,
   one reply per model of the chain) and what the call has done so far. *)

(* the value of SystemTime::now() in is_token_expired, ms since the epoch *)
PollNow == 1000

JStr(s) == Some(<<"str", s>>)
JNum(n) == Some(<<"num", n>>)

OAuthObjects ==
    [accessToken : {None, JNum(7), JStr("stored")},
     refreshToken : {None, JNum(7), JStr("refresh")},
     expiresAt : {None, JStr("soon"), JNum(PollNow - 1), JNum(PollNow), JNum(PollNow + 1)}]

CredentialFiles ==
    [kind : {"no_home", "unreadable", "not_json"}, oauth : {None}]
        \cup [kind : {"json"}, oauth : {None} \cup {Some(o) : o \in OAuthObjects}]

RefreshReplies ==
    [kind : {"error", "not_json"}, access_token : {None}]
        \cup [kind : {"json"}, access_token : {None, JNum(7), JStr("fresh")}]

NoHeaders == [n \in HeaderNames |-> None]
OneHeader(name, value) == [NoHeaders EXCEPT ![name] = Some(value)]

ProbeHeaders ==
    {NoHeaders,
     OneHeader(H_5H_RESET, "10800"),
     OneHeader(H_STATUS, "allowed"),
     [OneHeader(H_5H_UTIL, "0.42") EXCEPT ![H_7D_UTIL] = Some("0.1")]}

ProbeReplies ==
    [kind : {"transport"}, http : {0}, headers : {NoHeaders}]
        \cup [kind : {"response"}, http : {200, 429}, headers : ProbeHeaders]

Ok(v) == Some(<<"Ok", v>>)
Err(e) == Some(<<"Err", e>>)
IsErr(result, e) == IsSome(result) /\ Unwrap(result)[1] = "Err" /\ Unwrap(result)[2] = e
IsOk(result) == IsSome(result) /\ Unwrap(result)[1] = "Ok"

InitPoll ==
    /\ InitWidget
    /\ hdr = None
    /\ fmt = None
    /\ \E file \in CredentialFiles, refresh_reply \in RefreshReplies,
          replies \in [1..Len(MODEL_FALLBACK_CHAIN) -> ProbeReplies] :
            call = [pc |-> "read_credentials", file |-> file,
                    refresh_reply |-> refresh_reply, replies |-> replies,
                    creds |-> None, token |-> None, refreshes |-> <<>>,
                    probes |-> <<>>, result |-> None]

(* the loop of fetch_usage_with_fallback after try_model on model i *)
fallback_abort(i, found) == IF found THEN "return" ELSE "fail"

fallback(i, found) ==
    IF found THEN "return"
    ELSE IF i < Len(MODEL_FALLBACK_CHAIN) THEN "continue"
    ELSE "fail"

(* poll(): let creds = read_credentials().ok_or(NoCredentials)? *)
poll_read_credentials ==
    /\ call.pc = "read_credentials"
    /\ LET creds == read_credentials(call.file)
       IN  call' = IF IsSome(creds)
                   THEN [call EXCEPT !.creds = creds, !.pc = "is_token_expired"]
                   ELSE [call EXCEPT !.result = Err("NoCredentials"), !.pc = "done"]
    /\ UNCHANGED <<widgetVars, hdr, fmt>>

(* poll(): if is_token_expired(creds.expires_at) { creds.refresh_token.ok_or(
   TokenExpired)? ... } else { creds.access_token } *)
poll_is_token_expired ==
    /\ call.pc = "is_token_expired"
    /\ LET creds == Unwrap(call.creds)
       IN  call' = IF is_token_expired(creds.expires_at, PollNow)
                   THEN IF IsSome(creds.refresh_token)
                        THEN [call EXCEPT !.pc = "refresh_access_token"]
                        ELSE [call EXCEPT !.result = Err("TokenExpired"), !.pc = "done"]
                   ELSE [call EXCEPT !.token = Some(creds.access_token),
                                     !.pc = "try_model"]
    /\ UNCHANGED <<widgetVars, hdr, fmt>>

(* A refresh that writes the new access token back to the credentials file,
   with an expiry one hour on *)
poll_refresh_and_store ==
    /\ call.pc = "refresh_access_token"
    /\ LET refresh == Unwrap(Unwrap(call.creds).refresh_token)
           token == refresh_access_token(call.refresh_reply)
           sent == [call EXCEPT !.refreshes = Append(@, refresh)]
           oauth == Unwrap(call.file.oauth)
       IN  call' = IF IsSome(token)
                   THEN [sent EXCEPT !.token = token, !.pc = "try_model",
                                     !.file.oauth =
                                        Some([oauth EXCEPT
                                                !.accessToken = JStr(Unwrap(token)),
                                                !.expiresAt = JNum(PollNow + 3600000)])]
                   ELSE [sent EXCEPT !.result = Err("TokenExpired"), !.pc = "done"]
    /\ UNCHANGED <<widgetVars, hdr, fmt>>

(* poll(): refresh_access_token(&refresh).map_err(|_| TokenExpired)? *)
poll_refresh_access_token ==
    /\ call.pc = "refresh_access_token"
    /\ LET refresh == Unwrap(Unwrap(call.creds).refresh_token)
           token == refresh_access_token(call.refresh_reply)
           sent == [call EXCEPT !.refreshes = Append(@, refresh)]
       IN  call' = IF IsSome(token)
                   THEN [sent EXCEPT !.token = token, !.pc = "try_model"]
                   ELSE [sent EXCEPT !.result = Err("TokenExpired"), !.pc = "done"]
    /\ UNCHANGED <<widgetVars, hdr, fmt>>

(* fetch_usage_with_fallback: one turn of the loop over the chain *)
poll_try_model ==
    /\ call.pc = "try_model"
    /\ LET i == Len(call.probes) + 1
           found == try_model(call.replies[i])
           probed == [call EXCEPT !.probes = Append(@, [model |-> MODEL_FALLBACK_CHAIN[i],
                                                         token |-> Unwrap(call.token)])]
           step == fallback(i, IsSome(found))
       IN  call' = CASE step = "return" ->
                          [probed EXCEPT !.result = Ok(Unwrap(found)), !.pc = "done"]
                     [] step = "continue" -> probed
                     [] OTHER ->
                          [probed EXCEPT !.result = Err("AllModelsFailed"), !.pc = "done"]
    /\ UNCHANGED <<widgetVars, hdr, fmt>>

NextPoll ==
    \/ poll_read_credentials
    \/ poll_is_token_expired
    \/ poll_refresh_access_token
    \/ poll_try_model

SpecPoll == InitPoll /\ [][NextPoll]_vars

-----------------------------------------------------------------------------
(* Calls of poll() one after the other, over the same credentials file.  The
   token endpoint hands out a new token at every refresh; call.n counts the
   calls and call.earlier keeps the token each earlier call used. *)

RefreshRepliesAt(n) ==
    [kind : {"error"}, access_token : {None}]
        \cup [kind : {"json"}, access_token : {JStr("fresh-" \o ToString(n))}]

ChainReplies ==
    {[i \in 1..Len(MODEL_FALLBACK_CHAIN) |-> reply] :
        reply \in {r \in ProbeReplies : r.kind = "transport" \/ (r.http = 200 /\ IsSome(r.headers[H_5H_UTIL]))}}

InitPolls ==
    /\ InitWidget
    /\ hdr = None
    /\ fmt = None
    /\ \E file \in CredentialFiles, refresh_reply \in RefreshRepliesAt(1),
          replies \in ChainReplies :
            call = [pc |-> "read_credentials", file |-> file,
                    refresh_reply |-> refresh_reply, replies |-> replies,
                    creds |-> None, token |-> None, refreshes |-> <<>>,
                    probes |-> <<>>, result |-> None, n |-> 1, earlier |-> <<>>]

(* the next call of poll(): do_poll on the next thread *)
poll_again ==
    /\ call.pc = "done"
    /\ call.n < MaxPolls
    /\ \E refresh_reply \in RefreshRepliesAt(call.n + 1), replies \in ChainReplies :
          call' = [pc |-> "read_credentials", file |-> call.file,
                   refresh_reply |-> refresh_reply, replies |-> replies,
                   creds |-> None, token |-> None, refreshes |-> <<>>,
                   probes |-> <<>>, result |-> None, n |-> call.n + 1,
                   earlier |-> Append(call.earlier, call.token)]
    /\ UNCHANGED <<widgetVars, hdr, fmt>>

NextPolls ==
    \/ poll_read_credentials
    \/ poll_is_token_expired
    \/ poll_refresh_access_token
    \/ poll_try_model
    \/ poll_again

SpecPolls == InitPolls /\ [][NextPolls]_vars

-----------------------------------------------------------------------------
(* try_model on one response, on its own: hdr holds the response and what
   try_model made of it. *)

Responses ==
    [kind : {"response"}, http : {200, 429},
     headers :
        {[n \in HeaderNames |->
            CASE n = H_5H_UTIL -> u5
              [] n = H_7D_UTIL -> u7
              [] n = H_5H_RESET -> r5
              [] n = H_7D_RESET -> r7
              [] n = H_RESET -> r
              [] n = H_STATUS -> st
              [] OTHER -> cl] :
            u5 \in {None, Some("0"), Some("0.42"), Some("1.5"), Some("n/a")},
            u7 \in {None, Some("0.0"), Some("0.1")},
            r5 \in {None, Some("-1"), Some("10800"), Some("n/a")},
            r7 \in {None, Some("-86400"), Some("432000")},
            r \in {None, Some("-1"), Some("3")},
            st \in {None, Some("allowed"), Some("rejected")},
            cl \in {None, Some("five_hour"), Some("seven_day"), Some("other")}}]

InitHeaders ==
    /\ InitWidget
    /\ call = None
    /\ fmt = None
    /\ \E response \in Responses :
          hdr = [pc |-> "has_rate_limit_headers", response |-> response,
                 accepted |-> FALSE, data |-> None]

(* try_model: let has_rate_limit_headers = ... *)
try_model_has_rate_limit_headers ==
    /\ hdr.pc = "has_rate_limit_headers"
    /\ LET accepted == has_rate_limit_headers(hdr.response)
       IN  hdr' = [hdr EXCEPT !.accepted = accepted,
                              !.pc = IF accepted THEN "parse_headers" ELSE "done"]
    /\ UNCHANGED <<widgetVars, call, fmt>>

(* try_model: Some(parse_headers(&response)) *)
try_model_parse_headers ==
    /\ hdr.pc = "parse_headers"
    /\ hdr' = [hdr EXCEPT !.data = Some(parse_headers(hdr.response)), !.pc = "done"]
    /\ UNCHANGED <<widgetVars, call, fmt>>

NextHeaders ==
    \/ try_model_has_rate_limit_headers
    \/ try_model_parse_headers

SpecHeaders == InitHeaders /\ [][NextHeaders]_vars

-----------------------------------------------------------------------------
(* The countdown text on its own: fmt holds a reset time, the clock value at
   which format_countdown and time_until_display_change are called, and the
   text format_countdown gives once the delay has gone by. *)

(* the clock value of the first calls, ms *)
FormatNow == 5000

(* whole seconds left at the first calls, around every tier of the countdown *)
SecondsLeft ==
    (0..130) \cup (3590..3730) \cup (7190..7210) \cup {10800}
        \cup (86390..86410) \cup (172790..172810)

ResetTimes ==
    {None} \cup {Some(FormatNow - late) : late \in {1, 1000, 5000}}
           \cup {Some(FormatNow + secs * 1000 + ms) : secs \in SecondsLeft, ms \in {0, 1, 500, 999}}

InitFormat ==
    /\ InitWidget
    /\ call = None
    /\ hdr = None
    /\ \E resets_at \in ResetTimes :
          fmt = [pc |-> "format_countdown", resets_at |-> resets_at, t |-> FormatNow,
                 countdown |-> "", delay |-> None, later |-> None]

(* format_countdown(resets_at) at clock value fmt.t *)
call_format_countdown ==
    /\ fmt.pc = "format_countdown"
    /\ fmt' = [fmt EXCEPT !.countdown = format_countdown(fmt.resets_at, fmt.t),
                          !.pc = "time_until_display_change"]
    /\ UNCHANGED <<widgetVars, call, hdr>>

(* time_until_display_change(resets_at) at the same clock value *)
call_time_until_display_change ==
    /\ fmt.pc = "time_until_display_change"
    /\ LET delay == time_until_display_change(fmt.resets_at, fmt.t)
       IN  fmt' = [fmt EXCEPT !.delay = delay,
                              !.pc = IF IsSome(delay) THEN "wait" ELSE "done"]
    /\ UNCHANGED <<widgetVars, call, hdr>>

(* the delay goes by and format_countdown is called again *)
wait_and_format ==
    /\ fmt.pc = "wait"
    /\ LET t == fmt.t + Unwrap(fmt.delay)
       IN  fmt' = [fmt EXCEPT !.t = t,
                              !.later = Some(format_countdown(fmt.resets_at, t)),
                              !.pc = "done"]
    /\ UNCHANGED <<widgetVars, call, hdr>>

NextFormat ==
    \/ call_format_countdown
    \/ call_time_until_display_change
    \/ wait_and_format

SpecFormat == InitFormat /\ [][NextFormat]_vars

-----------------------------------------------------------------------------
(* From the headers to the screen: the parsed data are stored, update_display
   formats the two texts and draw_row fills the two bars. *)

SEGMENT_W == 10
SEGMENT_COUNT == 10

(* draw_row: let percent_clamped = percent.clamp(0.0, 100.0), in tenths of a
   percent *)
percent_clamped(percent) == Max(0, Min(1000, percent))

(* draw_row: the filled width of segment i, in pixels *)
segment_fill(percent, i) ==
    LET seg_start == i * 100
        seg_end == seg_start + 100
    IN  IF percent_clamped(percent) >= seg_end THEN SEGMENT_W
        ELSE IF percent_clamped(percent) <= seg_start THEN 0
        ELSE (SEGMENT_W * (percent_clamped(percent) - seg_start)) \div 100

(* draw_row: for i in 0..SEGMENT_COUNT *)
bar_fill(percent) == [i \in 0..(SEGMENT_COUNT - 1) |-> segment_fill(percent, i)]

(* do_poll stores the data, update_display formats the texts, paint draws the
   rows *)
update_display_and_paint ==
    /\ hdr.pc = "done"
    /\ IsSome(hdr.data)
    /\ hdr' = [hdr EXCEPT !.pc = "painted"]
    /\ LET d == Unwrap(hdr.data)
       IN  fmt' = [session_percent |-> d.session.percentage,
                   weekly_percent |-> d.weekly.percentage,
                   session_text |-> format_line(d.session, FormatNow),
                   weekly_text |-> format_line(d.weekly, FormatNow),
                   session_bar |-> bar_fill(d.session.percentage),
                   weekly_bar |-> bar_fill(d.weekly.percentage)]
    /\ UNCHANGED <<widgetVars, call>>

NextDisplay ==
    \/ try_model_has_rate_limit_headers
    \/ try_model_parse_headers
    \/ update_display_and_paint

SpecDisplay == InitHeaders /\ [][NextDisplay]_vars

-----------------------------------------------------------------------------
(* The countdown text between two ticks: format_countdown is called again
   before the delay of time_until_display_change, less its last second, has
   gone by (a notification renders the texts at any time). *)

(* ms after the first call *)
Waits == {0, 1, 500, 999, 1000, 1500, 5000, 5500, 59000, 60000, 64999, 3600000}

(* the waits that end before the delay less one second, the last such ms
   among them *)
WaitsBefore(delay) ==
    {wait \in Waits \cup {delay - 1001} : wait >= 0 /\ wait < delay - 1000}

format_before_tick ==
    /\ fmt.pc = "wait"
    /\ \E wait \in WaitsBefore(Unwrap(fmt.delay)) :
          fmt' = [fmt EXCEPT !.t = fmt.t + wait,
                            !.later = Some(format_countdown(fmt.resets_at, fmt.t + wait)),
                            !.pc = "done"]
    /\ UNCHANGED <<widgetVars, call, hdr>>

NextBetweenTicks ==
    \/ call_format_countdown
    \/ call_time_until_display_change
    \/ format_before_tick

SpecBetweenTicks == InitFormat /\ [][NextBetweenTicks]_vars

-----------------------------------------------------------------------------
(* The countdown text of one reset time at two instants, the second later
   than the first. *)

(* seconds left, on both sides of every tier boundary *)
TierSeconds ==
    {0, 1, 59, 60, 61, 62, 119, 120, 3599, 3600, 3601, 3659, 3660, 3661, 3719, 3720,
     3721, 7199, 7200, 7201, 10800, 86399, 86400, 86401, 172799, 172800, 172801}

(* time left in ms; negative once the reset time has passed *)
TimesLeft == {-1000, -1} \cup {secs * 1000 + ms : secs \in TierSeconds, ms \in {0, 500}}

(* the reset time all of them are measured to, ms *)
TierReset == 200000000

InitTiers ==
    /\ InitWidget
    /\ call = None
    /\ hdr = None
    /\ \E left \in TimesLeft :
          fmt = [pc |-> "format_countdown", resets_at |-> Some(TierReset),
                 t |-> TierReset - left, countdown |-> "", delay |-> None,
                 later |-> None]

(* some time later format_countdown is called again, by a tick of the
   countdown timer or by a notification *)
format_countdown_later ==
    /\ fmt.pc = "time_until_display_change"
    /\ \E left \in TimesLeft :
          /\ TierReset - left > fmt.t
          /\ fmt' = [fmt EXCEPT !.t = TierReset - left,
                                !.later = Some(format_countdown(fmt.resets_at, TierReset - left)),
                                !.pc = "done"]
    /\ UNCHANGED <<widgetVars, call, hdr>>

NextTiers ==
    \/ call_format_countdown
    \/ format_countdown_later

SpecTiers == InitTiers /\ [][NextTiers]_vars

-----------------------------------------------------------------------------
(* Properties *)

(* A step that applies a poll outcome *)
Failed == ev' \in PollError
Succeeded == ev' \in {"PollSucceeded", "PollRecovered"}

(* C1: with polls one at a time, the k-th failure in a row since startup or
   since the last success leaves retry_count = k and re-arms the poll timer,
   from now, at exactly min(30 s * 2^(k-1), poll_interval_ms); with a 15 minute
   interval the delays are 30, 60, 120, 240, 480, 900, 900, ... seconds, and
   the failure that follows a success (k = 1) waits 30 s again. *)
C1_BackoffSequence ==
    [][Failed =>
         LET k == fails'
             table == <<30000, 60000, 120000, 240000, 480000, 900000>>
         IN  /\ k = fails + 1
             /\ U32Int(retry_count') = k
             /\ timers'[TIMER_POLL] =
                    Armed(Min(30000 * 2 ^ (k - 1), poll_interval_ms), now)
             /\ poll_interval_ms = POLL_15_MIN =>
                    timers'[TIMER_POLL].period = table[Min(k, 6)]
             /\ k = 1 => timers'[TIMER_POLL].period = 30000]_vars

(* the seventh failure in a row at 15 minutes: the delay stays at the cap *)
C1_SeventhFailure ==
    /\ ev \in PollError
    /\ fails = 7
    /\ U32Int(retry_count) = 7
    /\ poll_interval_ms = POLL_15_MIN
    /\ timers[TIMER_POLL].period = 900000

Placeholders == {"--", "..."}

(* C2: a step that applies a successful poll leaves last_poll_ok = TRUE and
   retry_count = 0; it re-arms the poll timer at poll_interval_ms, from now,
   if retry_count was greater than 0 before the step, and leaves the poll
   timer as it was otherwise. *)
C2_SuccessResetsRetry ==
    [][Succeeded =>
         /\ last_poll_ok'
         /\ retry_count' = U32(0)
         /\ IF U32Int(retry_count) > 0
            THEN timers'[TIMER_POLL] = Armed(poll_interval_ms, now)
            ELSE timers'[TIMER_POLL] = timers[TIMER_POLL]]_vars

(* a success after failures, later than startup: the poll timer starts again *)
C2_RecoveredLater ==
    /\ ev = "PollRecovered"
    /\ now > 0
    /\ last_poll_ok
    /\ retry_count = U32(0)
    /\ timers[TIMER_POLL] = Armed(poll_interval_ms, now)

(* C3: whenever no thread is inside a critical section and last_poll_ok is
   FALSE, both display texts are "--" or "...", never a line formatted from
   UsageData. *)
C3_PlaceholderUnlessOk ==
    (mutex = 0 /\ ~last_poll_ok) =>
        (session_text \in Placeholders /\ weekly_text \in Placeholders)

(* a countdown tick ran update_display() over stored data after a failure *)
C3_TickAfterFailure ==
    /\ ev = "update_display"
    /\ IsSome(data)
    /\ ~last_poll_ok
    /\ session_text = "..."
    /\ weekly_text = "..."

(* C4: a step that applies a failed poll has one effect whatever the
   PollError: both texts become "...", last_poll_ok becomes FALSE, retry_count
   grows by one, the poll timer is re-armed from now at the backoff delay, and
   nothing else of AppState or of the other timers changes; the message loop
   stays where it was and the poll timer is running. *)
C4_FailureEffect ==
    [][Failed =>
         /\ session_text' = "..."
         /\ weekly_text' = "..."
         /\ ~last_poll_ok'
         /\ U32Int(retry_count') = U32Int(retry_count) + 1
         /\ timers' = [timers EXCEPT ![TIMER_POLL] =
                Armed(Min(30000 * 2 ^ U32Int(retry_count), poll_interval_ms), now)]
         /\ timers'[TIMER_POLL].on
         /\ UNCHANGED <<session_percent, weekly_percent, data, poll_interval_ms,
                        main, queue, mutex, now>>]_vars

(* a token failure, the second failure after a success *)
C4_TokenExpiredAfterSuccess ==
    /\ ev = "TokenExpired"
    /\ IsSome(data)
    /\ U32Int(retry_count) = 2
    /\ ~last_poll_ok
    /\ session_text = "..."
    /\ timers[TIMER_POLL] = Armed(60000, now)

(* C5: when the loop has handled the WM_APP_USAGE_UPDATED of a successful
   poll, the fast poll timer is on if and only if a resets_at of the stored
   UsageData has passed, and it runs with a period of 5 s. *)
C5_FastTimerFollowsData ==
    [][ev' = "UsageUpdatedOk" =>
         /\ IsSome(data')
         /\ timers'[TIMER_RESET_POLL].on <=> is_past_reset(Unwrap(data'), now')
         /\ timers'[TIMER_RESET_POLL].on =>
                timers'[TIMER_RESET_POLL].period = 5000]_vars

(* a success whose session reset has passed: the fast poll timer is started *)
C5_PassedResetActivates ==
    /\ ev = "UsageUpdatedOk"
    /\ IsSome(data)
    /\ past(Unwrap(data).session, now)
    /\ timers[TIMER_RESET_POLL] = Armed(5000, now)

(* C6: while the fast poll timer is on, no more than 5 s pass since it was
   started or since it last fired. *)
C6_FastPollEvery5s ==
    IsSome(last_fast) => now - Unwrap(last_fast) <= RESET_POLL_MS

(* C7: an IDM_FREQ_* command stores one of the four intervals and, with
   retry_count = 0, re-arms the poll timer at that interval from now; the two
   steps of the handler start no thread and change nothing else of AppState
   and no other timer. *)
C7_IntervalChangeSteady ==
    [][/\ ev' = "freq_store" =>
            /\ poll_interval_ms' \in {60000, 300000, 900000, 3600000}
            /\ main'.arg = poll_interval_ms'
            /\ UNCHANGED <<session_percent, session_text, weekly_percent,
                           weekly_text, data, retry_count, last_poll_ok,
                           timers, workers, queue, now>>
       /\ (ev' = "UserChangedInterval" /\ U32Int(retry_count) = 0) =>
            /\ timers' = [timers EXCEPT ![TIMER_POLL] = Armed(poll_interval_ms, now)]
            /\ UNCHANGED <<appState, workers, queue, now>>]_vars

(* one minute chosen later than startup, no failure pending *)
C7_OneMinuteChosen ==
    /\ ev = "UserChangedInterval"
    /\ U32Int(retry_count) = 0
    /\ now > 0
    /\ poll_interval_ms = POLL_1_MIN
    /\ timers[TIMER_POLL] = Armed(POLL_1_MIN, now)

(* C8: an IDM_FREQ_* command received with retry_count > 0 leaves the poll
   timer as the last failure armed it. *)
C8_BackoffTimerKept ==
    [][(ev' = "UserChangedInterval" /\ U32Int(retry_count) > 0) =>
            timers'[TIMER_POLL] = timers[TIMER_POLL]]_vars

(* C9: every WM_TIMER of the poll timer or of the fast poll timer starts one
   more poll thread, whatever the number of polls outstanding. *)
C9_TimerAlwaysSpawns ==
    [][ev' \in {"TIMER_POLL", "TIMER_RESET_POLL"} =>
         Cardinality(InFlight') = Cardinality(InFlight) + 1]_vars

(* a timer fired while a poll was outstanding: two polls in flight *)
C9_TwoInFlight ==
    /\ ev \in {"TIMER_POLL", "TIMER_RESET_POLL"}
    /\ Cardinality(InFlight) >= 2
    /\ \A w \in InFlight : workers[w].pc = "poll"

(* The lines format_line can have produced for a section at a time up to
   now.  The countdown is a step function of the whole seconds left: it is
   enough to take, of the seconds left between then and now, both ends and
   every value at which a step begins. *)
Lines(section) ==
    IF ~IsSome(section.resets_at) THEN {format_line(section, now)}
    ELSE LET reset == Unwrap(section.resets_at)
             hi == reset \div 1000
             lo == IF now <= reset THEN (reset - now) \div 1000 ELSE 0
             steps ==
                 {lo, hi}
                 \cup {x \in {61, 3720} : lo <= x /\ x <= hi}
                 \cup (lo..Min(hi, 60))
                 \cup {60 * m : m \in (lo \div 60 + 1)..Min(hi \div 60, 61)}
                 \cup {3600 * h : h \in (lo \div 3600 + 1)..Min(hi \div 3600, 23)}
                 \cup {86400 * d : d \in (lo \div 86400 + 1)..(hi \div 86400)}
         IN  {format_line(section, reset - x * 1000) : x \in steps}
             \cup (IF now > reset THEN {format_line(section, now)} ELSE {})

(* C10: at most one thread is inside a critical section, and whenever none
   is, AppState holds the fields of whole outcomes: the bar percentages are
   those of the stored UsageData, last_poll_ok holds exactly when data is
   stored and retry_count = 0, and with last_poll_ok both texts are lines of
   the stored UsageData, or both are the "..." of a Refresh. *)
C10_OutcomesWhole ==
    /\ Cardinality({w \in Workers : workers[w].pc = "locked"}) <= 1
    /\ \A w \in Workers : workers[w].pc = "locked" <=> mutex = w
    /\ mutex = 0 =>
         /\ session_percent = (IF IsSome(data) THEN Unwrap(data).session.percentage ELSE 0)
         /\ weekly_percent = (IF IsSome(data) THEN Unwrap(data).weekly.percentage ELSE 0)
         /\ last_poll_ok <=> (IsSome(data) /\ U32Int(retry_count) = 0)
         /\ session_text = "..." <=> weekly_text = "..."
         /\ session_text = "--" <=> weekly_text = "--"
         /\ (last_poll_ok /\ session_text # "...") =>
                /\ session_text \in Lines(Unwrap(data).session)
                /\ weekly_text \in Lines(Unwrap(data).weekly)

(* a second poll has returned while the first is between its writes *)
C10_WaitingForLock ==
    /\ \E w \in Workers : workers[w].pc = "locked"
    /\ \E w \in Workers : workers[w].pc = "poll"
    /\ IsSome(data)
    /\ session_percent # Unwrap(data).session.percentage

(* A step of a do_poll thread that writes AppState *)
WorkerWrite == ev' \in PollError \cup {"do_poll_ok_lock", "PollSucceeded", "PollRecovered"}
Notified == ev' \in {"UsageUpdatedOk", "UsageUpdatedErr"}

-----------------------------------------------------------------------------
(* poll() on its own *)

Done == call.pc = "done"
Carries(i) ==
    /\ call.replies[i].kind = "response"
    /\ \E n \in {H_5H_UTIL, H_7D_UTIL, H_STATUS} : IsSome(call.replies[i].headers[n])
Chain == 1..Len(MODEL_FALLBACK_CHAIN)

(* C12: the models are tried in the order of the chain, each at most once and
   none after one whose response carried rate-limit headers (the headers
   try_model looks for); the data returned is the one parsed from that
   response; a model without such a response does not end the loop; the call
   fails with AllModelsFailed exactly when every model was tried and none
   carried them. *)
C12_FallbackChain ==
    LET n == Len(call.probes)
    IN  /\ n <= Len(MODEL_FALLBACK_CHAIN)
        /\ \A i \in 1..n : call.probes[i].model = MODEL_FALLBACK_CHAIN[i]
        /\ \A i \in 1..(n - 1) : ~Carries(i)
        /\ IsOk(call.result) =>
              /\ n >= 1 /\ Carries(n)
              /\ Unwrap(call.result)[2] = parse_headers(call.replies[n])
        /\ (Done /\ n >= 1 /\ ~Carries(n)) => n = Len(MODEL_FALLBACK_CHAIN)
        /\ IsErr(call.result, "AllModelsFailed") <=>
              (Done /\ n = Len(MODEL_FALLBACK_CHAIN) /\ \A i \in Chain : ~Carries(i))

(* the first model's request failed in transport, the second model's response
   carried the headers and its data is returned *)
C12_SecondModelAnswers ==
    /\ Done /\ IsOk(call.result)
    /\ Len(call.probes) = 2
    /\ call.replies[1].kind = "transport"
    /\ Unwrap(call.result)[2].session.percentage = 420

Stored == Unwrap(call.creds)
Expired == IsSome(Stored.expires_at) /\ PollNow >= Unwrap(Stored.expires_at)
RefreshGives ==
    IF call.refresh_reply.kind = "json" THEN as_str(call.refresh_reply.access_token) ELSE None

(* C14: with expires_at absent or later than now the stored access token is
   used for every probe and no refresh request is sent; with now >= expires_at
   and a stored refresh token exactly one refresh request is sent before the
   call ends, and when it gives an access token every probe uses that token;
   the call fails with TokenExpired exactly when the token is expired and
   there is no refresh token, or the refresh fails or gives no access_token,
   and then no probe was sent. *)
C14_TokenResolution ==
    /\ IsSome(call.creds) =>
         /\ ~Expired =>
               /\ call.refreshes = <<>>
               /\ \A i \in 1..Len(call.probes) : call.probes[i].token = Stored.access_token
         /\ Expired =>
               /\ Len(call.refreshes) <= 1
               /\ (Done /\ IsSome(Stored.refresh_token)) =>
                     call.refreshes = <<Unwrap(Stored.refresh_token)>>
               /\ ~IsSome(Stored.refresh_token) => call.refreshes = <<>>
               /\ call.probes # <<>> => IsSome(RefreshGives)
               /\ \A i \in 1..Len(call.probes) : call.probes[i].token = Unwrap(RefreshGives)
               /\ (Done /\ IsSome(Stored.refresh_token) /\ IsSome(RefreshGives)) =>
                     call.probes # <<>>
    /\ IsErr(call.result, "TokenExpired") <=>
         /\ Done /\ IsSome(call.creds) /\ Expired
         /\ ~IsSome(Stored.refresh_token) \/ ~IsSome(RefreshGives)
    /\ IsErr(call.result, "TokenExpired") => call.probes = <<>>

(* the token expires at this very millisecond, one refresh was sent and the
   probe carried the new token, not the stored one *)
C14_RefreshedAtExpiry ==
    /\ Done /\ IsSome(call.creds)
    /\ Stored.expires_at = Some(PollNow)
    /\ call.refreshes = <<"refresh">>
    /\ call.probes # <<>> /\ call.probes[1].token = "fresh"
    /\ Stored.access_token = "stored"

Unreadable ==
    \/ call.file.kind \in {"no_home", "unreadable", "not_json"}
    \/ ~IsSome(call.file.oauth)
    \/ ~IsSome(as_str(Unwrap(call.file.oauth).accessToken))

(* C15: a finished poll failed with NoCredentials exactly when the file cannot
   be read (no home directory counts as that), is not JSON, has no OAuth
   object or no string accessToken; then no refresh and no probe was sent; in
   every other case the credentials are read, with a refreshToken or expiresAt
   of the wrong type read as absent. *)
C15_NoCredentials ==
    /\ Done => (IsErr(call.result, "NoCredentials") <=> Unreadable)
    /\ IsErr(call.result, "NoCredentials") => (call.refreshes = <<>> /\ call.probes = <<>>)
    /\ (call.pc # "read_credentials" /\ ~Unreadable) =>
          LET oauth == Unwrap(call.file.oauth)
          IN  /\ IsSome(call.creds)
              /\ Stored.access_token = Unwrap(oauth.accessToken)[2]
              /\ IsSome(Stored.refresh_token) <=>
                    (IsSome(oauth.refreshToken) /\ Unwrap(oauth.refreshToken)[1] = "str")
              /\ IsSome(Stored.expires_at) <=>
                    (IsSome(oauth.expiresAt) /\ Unwrap(oauth.expiresAt)[1] = "num")

(* a file whose refreshToken is a number and whose expiresAt is a string was
   read, never expired, and the poll returned data *)
C15_IllTypedOptionals ==
    /\ Done /\ IsOk(call.result)
    /\ call.file.kind = "json" /\ IsSome(call.file.oauth)
    /\ Unwrap(call.file.oauth).refreshToken = JNum(7)
    /\ Unwrap(call.file.oauth).expiresAt = JStr("soon")
    /\ call.refreshes = <<>>

-----------------------------------------------------------------------------
(* try_model on one response *)

Has(name) == IsSome(hdr.response.headers[name])
Is(name, value) == hdr.response.headers[name] = Some(value)
Decided == hdr.pc # "has_rate_limit_headers"
Parsed == hdr.pc = "done" /\ IsSome(hdr.data)
Session == Unwrap(hdr.data).session
Weekly == Unwrap(hdr.data).weekly

(* C13 as stated: a response is accepted exactly when it has at least one of
   the seven recognized headers.  The code looks for three of them only. *)
C13_AnyOfSevenHeaders ==
    Decided => (hdr.accepted <=> \E name \in HeaderNames : Has(name))

(* C13: a response is accepted exactly when it has the 5-hour utilization, the
   7-day utilization or the status header; the reset headers and the
   representative claim do not make it accepted; the HTTP status plays no
   part: the same headers under the other status are decided the same way. *)
C13_AnyOfThreeHeaders ==
    Decided =>
        /\ hdr.accepted <=> (Has(H_5H_UTIL) \/ Has(H_7D_UTIL) \/ Has(H_STATUS))
        /\ \A http \in {200, 429} :
              has_rate_limit_headers([hdr.response EXCEPT !.http = http]) = hdr.accepted

(* a 429 response whose only rate-limit header is the status was accepted and
   parsed *)
C13_ErrorStatusAccepted ==
    /\ Parsed /\ hdr.accepted
    /\ hdr.response.http = 429
    /\ \A name \in HeaderNames : Has(name) <=> name = H_STATUS

Parsed5h == percent_of(get_header_f64(hdr.response, H_5H_UTIL))
Parsed7d == percent_of(get_header_f64(hdr.response, H_7D_UTIL))

(* C16: with both parsed percentages 0 and status "rejected", claim
   "five_hour" gives session 100 and weekly 0, claim "seven_day" gives weekly
   100 and session 0, any other or no claim leaves both 0; with another status
   both stay 0; with a parsed percentage that is not 0, both percentages are
   the parsed ones whatever the status and claim say. *)
C16_ForcedToHundred ==
    Parsed =>
        LET both_zero == Parsed5h = 0 /\ Parsed7d = 0
            rejected == Is(H_STATUS, "rejected")
        IN  /\ (both_zero /\ rejected /\ Is(H_CLAIM, "five_hour")) =>
                  (Session.percentage = 1000 /\ Weekly.percentage = 0)
            /\ (both_zero /\ rejected /\ Is(H_CLAIM, "seven_day")) =>
                  (Weekly.percentage = 1000 /\ Session.percentage = 0)
            /\ (both_zero /\ rejected /\ ~Is(H_CLAIM, "five_hour") /\ ~Is(H_CLAIM, "seven_day")) =>
                  (Session.percentage = 0 /\ Weekly.percentage = 0)
            /\ (both_zero /\ ~rejected) =>
                  (Session.percentage = 0 /\ Weekly.percentage = 0)
            /\ ~both_zero =>
                  (Session.percentage = Parsed5h /\ Weekly.percentage = Parsed7d)

(* both utilizations 0, status rejected, claim five_hour: session is 100 and
   weekly 0 *)
C16_RejectedFiveHour ==
    /\ Parsed
    /\ Is(H_5H_UTIL, "0") /\ Is(H_7D_UTIL, "0.0")
    /\ Is(H_STATUS, "rejected") /\ Is(H_CLAIM, "five_hour")
    /\ Session.percentage = 1000 /\ Weekly.percentage = 0

Secs(name) == get_header_i64(hdr.response, name)
Negative(name) == IsSome(Secs(name)) /\ Unwrap(Secs(name)) < 0
Usable(name) == IsSome(Secs(name)) /\ Unwrap(Secs(name)) >= 0

(* C17 as stated: a negative 5-hour reset leaves session.resets_at absent, a
   negative 7-day reset leaves weekly.resets_at absent, a negative overall
   reset leaves absent the session.resets_at it would have filled. *)
C17_NegativeAlwaysAbsent ==
    Parsed =>
        /\ Negative(H_5H_RESET) => ~IsSome(Session.resets_at)
        /\ Negative(H_7D_RESET) => ~IsSome(Weekly.resets_at)
        /\ (Negative(H_RESET) /\ ~Usable(H_5H_RESET)) => ~IsSome(Session.resets_at)

(* C17: no resets_at comes from a negative timestamp: each one present is the
   non-negative value of the header it was read from; a negative 7-day reset
   leaves weekly.resets_at absent; a negative 5-hour reset is read as a
   missing one, so session.resets_at is absent unless both percentages parsed
   to 0 and the overall reset is non-negative, and then it is the overall
   reset; a negative overall reset fills nothing. *)
C17_NegativeReadAsMissing ==
    Parsed =>
        LET both_zero == Parsed5h = 0 /\ Parsed7d = 0
        IN  /\ Session.resets_at =
                  IF Usable(H_5H_RESET) THEN Some(Unwrap(Secs(H_5H_RESET)) * 1000)
                  ELSE IF both_zero /\ Usable(H_RESET) THEN Some(Unwrap(Secs(H_RESET)) * 1000)
                  ELSE None
            /\ Weekly.resets_at =
                  IF Usable(H_7D_RESET) THEN Some(Unwrap(Secs(H_7D_RESET)) * 1000) ELSE None
            /\ \A section \in {Session, Weekly} :
                  IsSome(section.resets_at) => Unwrap(section.resets_at) >= 0

(* the 5-hour reset is -1, both percentages are 0 and the overall reset is 3:
   session.resets_at is present, 3 s after the epoch *)
C17_OverallFillsNegative ==
    /\ Parsed
    /\ Is(H_5H_RESET, "-1") /\ Is(H_RESET, "3") /\ Is(H_7D_RESET, "-86400")
    /\ Session.resets_at = Some(3000)
    /\ ~IsSome(Weekly.resets_at)

-----------------------------------------------------------------------------
(* The countdown text *)

Formatted == fmt.pc # "format_countdown"
Timed == fmt.pc \in {"wait", "done"}
Present == IsSome(fmt.resets_at)
RemainingMs == Unwrap(fmt.resets_at) - FormatNow
RemainingSecs == RemainingMs \div 1000

(* C18 as stated, with the remaining time taken in whole seconds and a reset
   time equal to now not yet passed: "now" once the reset time has passed,
   else whole days and "d" from one day on, else whole hours and "h" above 61
   minutes, else whole minutes and "m" above 60 seconds, else the seconds.
   Between 61 and 62 minutes the code gives "61m", not "1h". *)
C18_CountdownTiers ==
    (Formatted /\ Present) =>
        fmt.countdown =
            IF RemainingMs < 0 THEN "now"
            ELSE IF RemainingSecs >= 86400 THEN ToString(RemainingSecs \div 86400) \o "d"
            ELSE IF RemainingSecs > 61 * 60 THEN ToString(RemainingSecs \div 3600) \o "h"
            ELSE IF RemainingSecs > 60 THEN ToString(RemainingSecs \div 60) \o "m"
            ELSE ToString(RemainingSecs)

(* C19: with more than 60 seconds left, the text format_countdown gives after
   exactly the delay of time_until_display_change differs from the text it
   gave before; with 60 seconds or less left (and the reset time not passed)
   the delay is exactly 1 second. *)
C19_TextChangesAfterDelay ==
    /\ (fmt.pc = "done" /\ Present /\ RemainingMs > 60000) =>
          (IsSome(fmt.later) /\ Unwrap(fmt.later) # fmt.countdown)
    /\ (Timed /\ Present /\ RemainingMs >= 0 /\ RemainingMs <= 60000) =>
          fmt.delay = Some(1000)

(* 1 h 2 min 5.5 s left: the text was "1h", the delay ran down to the
   61-minute mark and one second more, and the text is now "60m" *)
C19_HourToMinutes ==
    /\ fmt.pc = "done" /\ Present
    /\ RemainingMs = 3725 * 1000 + 500
    /\ fmt.countdown = "1h"
    /\ fmt.delay = Some(66500)
    /\ fmt.later = Some("60m")

(* C20 as stated: a delay of at least 1 second whenever resets_at is present,
   nothing only when it is absent. *)
C20_DelayWheneverPresent ==
    Timed =>
        /\ Present => (IsSome(fmt.delay) /\ Unwrap(fmt.delay) >= 1000)
        /\ ~IsSome(fmt.delay) => ~Present

(* C20: time_until_display_change gives a delay exactly when resets_at is
   present and not earlier than now, and the delay is then at least 1 second;
   it gives nothing when resets_at is absent or already passed. *)
C20_DelayUnlessPassed ==
    Timed =>
        /\ IsSome(fmt.delay) <=> (Present /\ RemainingMs >= 0)
        /\ IsSome(fmt.delay) => Unwrap(fmt.delay) >= 1000

(* a reset time one second in the past: the text is "now" and there is no
   delay *)
C20_PassedGivesNothing ==
    /\ fmt.pc = "done" /\ Present
    /\ RemainingMs = -1000
    /\ fmt.countdown = "now"
    /\ ~IsSome(fmt.delay)

-----------------------------------------------------------------------------
(* The countdown tick *)

Windows(d) == {d.session, d.weekly}
Delays(d, t) ==
    {Unwrap(x) : x \in {y \in {time_until_display_change(w.resets_at, t) : w \in Windows(d)} :
                            IsSome(y)}}
MinOf(S) == CHOOSE a \in S : \A b \in S : a <= b
TickRenders ==
    (ev' = "update_display" /\ last_poll_ok /\ IsSome(data)) =>
        /\ session_text' = format_line(Unwrap(data).session, now)
        /\ weekly_text' = format_line(Unwrap(data).weekly, now)

(* C21 as stated: a tick with UsageData stored arms the countdown timer at 60 s
   when and only when neither window has a reset time, and otherwise at the
   least delay time_until_display_change gives for a window, not below 1 s.
   A window whose reset time has passed gives no delay, and the code then
   falls back to 60 s as well. *)
C21_DefaultOnlyWithoutResetTimes ==
    [][ /\ TickRenders
        /\ (ev' = "CountdownTick" /\ IsSome(data)) =>
              LET d == Unwrap(data)
              IN  IF \A w \in Windows(d) : ~IsSome(w.resets_at)
                  THEN timers'[TIMER_COUNTDOWN] = Armed(60000, now)
                  ELSE /\ Delays(d, now) # {}
                       /\ timers'[TIMER_COUNTDOWN] =
                             Armed(Max(1000, MinOf(Delays(d, now))), now) ]_vars

(* C21: a tick with UsageData stored restarts the countdown timer from now,
   at the least delay time_until_display_change gives for the session and the
   weekly window, not below 1 s, and at 60 s when no window gives a delay,
   which is the case exactly when each window's reset time is absent or
   already passed; with last_poll_ok the tick has first rewritten both display
   texts from the stored UsageData. *)
C21_TickRearmsCountdown ==
    [][ /\ TickRenders
        /\ (ev' = "CountdownTick" /\ IsSome(data)) =>
              LET d == Unwrap(data)
              IN  /\ timers'[TIMER_COUNTDOWN] =
                        Armed(IF Delays(d, now) = {} THEN 60000
                              ELSE Max(1000, MinOf(Delays(d, now))), now)
                  /\ Delays(d, now) = {} <=>
                        \A w \in Windows(d) :
                            ~IsSome(w.resets_at) \/ Unwrap(w.resets_at) < now ]_vars

(* the session reset time has passed and weekly has none: the tick armed the
   countdown timer at 60 s *)
C21_DefaultAfterReset ==
    /\ ev = "CountdownTick" /\ IsSome(data)
    /\ Unwrap(data).session.resets_at = ResetSoon
    /\ now > Unwrap(ResetSoon)
    /\ timers[TIMER_COUNTDOWN] = Armed(60000, now)

-----------------------------------------------------------------------------
(* Start *)

(* C22: the Start step finds and leaves poll_interval_ms at 15 minutes,
   retry_count 0, last_poll_ok false, no UsageData and the texts "--"; it arms
   the poll timer at 15 minutes from now and no other timer, and starts exactly
   one poll thread in the same step, with no thread running before and no time
   gone by. *)
C22_StartDispatchesOnePoll ==
    [][ ev' = "Start" =>
          /\ poll_interval_ms' = POLL_15_MIN
          /\ retry_count' = U32(0)
          /\ ~last_poll_ok'
          /\ data' = None
          /\ session_text' = "--" /\ weekly_text' = "--"
          /\ session_percent' = 0 /\ weekly_percent' = 0
          /\ timers' = [id \in TimerIds |->
                           IF id = TIMER_POLL THEN Armed(15 * 60 * 1000, now) ELSE TimerOff]
          /\ \A w \in Workers : workers[w].pc = "idle"
          /\ Cardinality({w \in Workers : workers'[w].pc = "poll"}) = 1
          /\ Cardinality({w \in Workers : workers'[w].pc = "idle"}) = MaxWorkers - 1
          /\ now' = now ]_vars

(* just after Start: one poll is under way while the poll timer's first
   firing is still 15 minutes off *)
C22_PollBeforeFirstTimer ==
    /\ ev = "Start"
    /\ Cardinality(InFlight) = 1
    /\ timers[TIMER_POLL].on /\ timers[TIMER_POLL].due = now + POLL_15_MIN
    /\ data = None /\ ~last_poll_ok

-----------------------------------------------------------------------------
(* The widget running without end *)

TimerDispatch == ev \in {"TIMER_POLL", "TIMER_RESET_POLL"}

(* C23: once Start has run the poll timer is armed in every state, whatever
   failure, success, interval change or fast-repoll step came before, and, the
   timers being delivered and time going by, the timers dispatch a new poll
   again and again without end, however often polls fail. *)
C23_PollsForever ==
    /\ [](main.pc # "start" => timers[TIMER_POLL].on)
    /\ []<>TimerDispatch

(* the poll timer dispatches a poll after as many failures in a row as the
   model lets happen *)
C23_DispatchAfterFailures ==
    /\ ev = "TIMER_POLL"
    /\ fails = MaxRetry
    /\ ~last_poll_ok
    /\ timers[TIMER_POLL].on

-----------------------------------------------------------------------------
(* One poll from dispatch to notification *)

Moves(w, from, to) == workers[w].pc = from /\ workers'[w].pc = to
Applies(w) == Moves(w, "poll", "post") \/ Moves(w, "locked", "post")
Outcomes == PollError \cup {"PollSucceeded", "PollRecovered"}

(* C24: a poll thread goes once through dispatch, outcome, notification and
   end, in this order: the outcome (failure, or success after the first writes
   of the Ok arm) is written in exactly one step of the thread; the thread then
   posts exactly one notification, in a step that changes neither AppState nor
   a timer, and ends; nothing else adds a notification; and every thread that
   was dispatched does reach its end.  (That poll() itself sends at most one
   refresh request and one probe per model is the matter of C12 and C14.) *)
C24_PollRunsOnce ==
    /\ [][ /\ \A w \in Workers :
                \/ workers'[w] = workers[w]
                \/ Moves(w, "idle", "poll") \/ Moves(w, "poll", "locked")
                \/ Applies(w) \/ Moves(w, "post", "idle")
           /\ \A v, w \in Workers :
                (workers'[v] # workers[v] /\ workers'[w] # workers[w]) => v = w
           /\ (ev' \in Outcomes) <=> \E w \in Workers : Applies(w)
           /\ (\E w \in Workers : Moves(w, "post", "idle")) <=> Len(queue') = Len(queue) + 1
           /\ \A w \in Workers : Moves(w, "post", "idle") =>
                /\ queue' = Append(queue, workers[w].ok)
                /\ UNCHANGED <<appState, timers>>
           /\ (queue' # queue /\ Len(queue') # Len(queue) + 1) => queue' = Tail(queue)
        ]_vars
    /\ \A w \in Workers : (workers[w].pc # "idle") ~> (workers[w].pc = "idle")

(* the first poll failed: its outcome is written (one failure counted, the
   poll timer at 30 s) and its one notification is waiting in the queue, the
   thread is gone *)
C24_FailureNotifiedOnce ==
    /\ ev = "PostMessage"
    /\ queue = <<FALSE>>
    /\ InFlight = {}
    /\ U32Int(retry_count) = 1 /\ fails = 1 /\ ~last_poll_ok
    /\ timers[TIMER_POLL].period = RETRY_BASE_MS

-----------------------------------------------------------------------------
(* Calls of poll() one after the other *)

(* C25: no step of a poll changes the credentials file; a poll that finds the
   stored token expired and a refresh token stored has, when it ends, sent its
   own refresh request with the stored refresh token, whatever the polls before
   it obtained, and its probes carry the token of that request; a poll that
   finds the stored token valid uses the stored token; so no probe carries a
   token obtained by an earlier poll. *)
C25_NoTokenWrittenBack ==
    /\ [][call'.file = call.file]_vars
    /\ [](IsSome(call.creds) =>
            /\ (Expired /\ Done /\ IsSome(Stored.refresh_token)) =>
                  call.refreshes = <<Unwrap(Stored.refresh_token)>>
            /\ \A i \in 1..Len(call.probes) :
                  call.probes[i].token =
                      IF Expired THEN "fresh-" \o ToString(call.n) ELSE Stored.access_token)

(* the second poll over an expired token: the first one had obtained
   "fresh-1", the second sent its own refresh request and probed with
   "fresh-2"; the file is as it was *)
C25_SecondPollRefreshesAgain ==
    /\ Done /\ call.n = 2
    /\ call.earlier = <<Some("fresh-1")>>
    /\ call.refreshes = <<"refresh">>
    /\ call.probes # <<>> /\ call.probes[1].token = "fresh-2"
    /\ IsOk(call.result)
    /\ Unwrap(call.file.oauth).accessToken = JStr("stored")

-----------------------------------------------------------------------------
(* The tiers of the countdown text *)

(* the tier a text belongs to: 1 days, 2 hours, 3 minutes, 4 seconds, 5 "now";
   0 for any other text *)
TierOf(text) ==
    IF text = "now" THEN 5
    ELSE IF \E n \in 0..60 : text = ToString(n) THEN 4
    ELSE IF \E n \in 1..61 : text = ToString(n) \o "m" THEN 3
    ELSE IF \E n \in 1..23 : text = ToString(n) \o "h" THEN 2
    ELSE IF \E n \in 1..2 : text = ToString(n) \o "d" THEN 1
    ELSE 0

(* the number a text shows *)
NumberOf(text) ==
    IF text = "now" THEN 0
    ELSE CHOOSE n \in 0..61 : text \in {ToString(n), ToString(n) \o "m",
                                        ToString(n) \o "h", ToString(n) \o "d"}

(* C26: for one reset time the text at a later instant is in the same tier as
   the text at the earlier instant or in a tier further on in the order days,
   hours, minutes, seconds, "now", and in the same tier its number is not
   greater. *)
C26_TiersOnlyForward ==
    fmt.pc = "done" =>
        LET before == TierOf(fmt.countdown)
            after == TierOf(Unwrap(fmt.later))
        IN  /\ before >= 1
            /\ after >= before
            /\ after = before => NumberOf(Unwrap(fmt.later)) <= NumberOf(fmt.countdown)

(* from "1h" with 62 minutes left to "61m" half a second later *)
C26_HourThenMinutes ==
    /\ fmt.pc = "done"
    /\ fmt.countdown = "1h"
    /\ fmt.later = Some("61m")
    /\ fmt.t = TierReset - 3719500

-----------------------------------------------------------------------------
(* The text between two ticks *)

(* C27 as stated: at every instant from the call of time_until_display_change
   up to its delay less one second, format_countdown gives the text it gave at
   the call.  With 62 minutes or more and less than two hours left the delay
   runs to the 61-minute mark while the text "1h" gives way to "61m" below 62
   minutes; with 61 seconds or more and less than two minutes left the delay
   runs to the 60-second mark while "1m" gives way to "60" below 61 seconds. *)
C27_TextHeldUntilTick ==
    (fmt.pc = "done" /\ IsSome(fmt.later)) => Unwrap(fmt.later) = fmt.countdown

-----------------------------------------------------------------------------
(* The overall reset header *)

(* session.resets_at is present though no usable 5-hour reset was parsed: it
   was filled from the overall reset header *)
FilledFromOverall == ~Usable(H_5H_RESET) /\ IsSome(Session.resets_at)

(* C28 as stated: session.resets_at is filled from the overall reset header
   exactly when both parsed percentages are 0, no usable 5-hour reset was
   parsed and the overall reset header is present; weekly.resets_at never is;
   with a parsed percentage that is not 0 the overall reset header is ignored.
   An overall reset header that is present and negative fills nothing. *)
C28_FilledWheneverPresent ==
    Parsed =>
        /\ FilledFromOverall <=>
              (Parsed5h = 0 /\ Parsed7d = 0 /\ ~Usable(H_5H_RESET) /\ Has(H_RESET))
        /\ ~Usable(H_7D_RESET) => ~IsSome(Weekly.resets_at)
        /\ (Parsed5h # 0 \/ Parsed7d # 0) => ~FilledFromOverall

(* C28: session.resets_at is filled from the overall reset header exactly when
   both parsed percentages are 0, no usable 5-hour reset was parsed and the
   overall reset header holds a non-negative integer, whatever the status
   header says, and it is then that integer's instant; weekly.resets_at is the
   instant of a usable 7-day reset or absent, whatever the overall reset
   header holds; with a parsed percentage that is not 0, session.resets_at is
   the instant of a usable 5-hour reset or absent. *)
C28_FilledWhenNonNegative ==
    Parsed =>
        /\ FilledFromOverall <=>
              (Parsed5h = 0 /\ Parsed7d = 0 /\ ~Usable(H_5H_RESET) /\ Usable(H_RESET))
        /\ FilledFromOverall => Session.resets_at = Some(Unwrap(Secs(H_RESET)) * 1000)
        /\ Weekly.resets_at =
              IF Usable(H_7D_RESET) THEN Some(Unwrap(Secs(H_7D_RESET)) * 1000) ELSE None
        /\ (Parsed5h # 0 \/ Parsed7d # 0) =>
              Session.resets_at =
                  IF Usable(H_5H_RESET) THEN Some(Unwrap(Secs(H_5H_RESET)) * 1000) ELSE None

(* both utilizations 0, status "allowed", no 5-hour and no 7-day reset, the
   overall reset is 3: session.resets_at is 3 s after the epoch and
   weekly.resets_at is absent *)
C28_FilledThoughAllowed ==
    /\ Parsed
    /\ Is(H_5H_UTIL, "0") /\ Is(H_7D_UTIL, "0.0")
    /\ Is(H_STATUS, "allowed")
    /\ ~Has(H_5H_RESET) /\ ~Has(H_7D_RESET) /\ Is(H_RESET, "3")
    /\ Session.resets_at = Some(3000)
    /\ ~IsSome(Weekly.resets_at)

-----------------------------------------------------------------------------
(* The percentages on the screen *)

Painted == hdr.pc = "painted"

(* the texts format_line gives for a section when the number is n *)
LinesWith(n, section) ==
    {ToString(n) \o "%",
     ToString(n) \o "% · " \o format_countdown(section.resets_at, FormatNow)}

(* the pixels filled in a bar *)
RECURSIVE Filled(_, _)
Filled(bar, i) == IF i < 0 THEN 0 ELSE bar[i] + Filled(bar, i - 1)

(* C29 as stated: the stored percentages are the parsed utilizations times
   100, unclamped, unless both parsed to 0; the number in each text of
   format_line lies in 0..100, and each bar is filled by 0 up to its full
   width.  A utilization of 1.5 is stored as 150 and format_line gives
   "150%". *)
C29_ShownWithinRange ==
    Painted =>
        /\ (Parsed5h # 0 \/ Parsed7d # 0) =>
              (fmt.session_percent = Parsed5h /\ fmt.weekly_percent = Parsed7d)
        /\ \E n \in 0..100 : fmt.session_text \in LinesWith(n, Session)
        /\ \E n \in 0..100 : fmt.weekly_text \in LinesWith(n, Weekly)
        /\ \A bar \in {fmt.session_bar, fmt.weekly_bar} :
              Filled(bar, SEGMENT_COUNT - 1) \in 0..(SEGMENT_W * SEGMENT_COUNT)

-----------------------------------------------------------------------------
(* The failure value of the fallback loop *)

(* what a result carries besides its kind, Ok or Err, and its data or error *)
Diagnostics(result) == SubSeq(Unwrap(result), 3, Len(Unwrap(result)))

(* why probe i yielded no rate-limit headers *)
Reason(i) ==
    IF call.replies[i].kind = "transport" THEN "transport"
    ELSE "no rate-limit headers, HTTP " \o ToString(call.replies[i].http)

(* C30 as stated: a call that failed with AllModelsFailed carries one
   diagnostic per model tried, in the order of the chain, saying why that
   model yielded no rate-limit headers.  PollError::AllModelsFailed has no
   fields and try_model returns None whatever the reason, so the failure value
   carries nothing. *)
C30_FailureCarriesDiagnostics ==
    IsErr(call.result, "AllModelsFailed") =>
        /\ Len(Diagnostics(call.result)) = Len(call.probes)
        /\ \A i \in 1..Len(call.probes) : Diagnostics(call.result)[i] = Reason(i)

-----------------------------------------------------------------------------
(* Overlapping polls *)

(* thread w starts to write its outcome *)
Writes(w) == Moves(w, "poll", "locked") \/ Moves(w, "poll", "post")

(* C31 as stated: no thread writes the outcome of its poll after a thread
   dispatched later has written the outcome of its own.  The threads write in
   the order in which poll() returns. *)
C31_AppliedInDispatchOrder ==
    [][\A w \in Workers : Writes(w) => w \notin call.overtaken]_vars

-----------------------------------------------------------------------------
(* The backoff delay and the timers *)

(* a poll is dispatched by the poll timer or by the fast-repoll timer *)
TimerPoll == ev' \in {"TIMER_POLL", "TIMER_RESET_POLL"}

(* C32 as stated: while the outcome written last is a failure, which set the
   poll timer to the delay d, no poll is dispatched by the poll timer or by the
   fast-repoll timer before d has gone by since that failure.  The fast-repoll
   timer keeps its 5 s period through a failure, and an interval change
   replaces the delay. *)
C32_NoTimerPollBeforeDelay ==
    [][(TimerPoll /\ IsSome(call.failed)) =>
          now >= Unwrap(call.failed).at + Unwrap(call.failed).delay]_vars

-----------------------------------------------------------------------------
(* The period of the poll timer *)

(* an outcome has just been written or an interval change has just been
   handled *)
EventCompleted == ev \in Outcomes \cup {"UserChangedInterval"}

(* C33 as stated: after every completed event the period of the poll timer is
   at most the steady interval, is the steady interval when retry_count is 0,
   and is min(30 s * 2^(retry_count - 1), steady interval) when retry_count is
   above 0.  An interval change sets the period to the new interval whatever
   retry_count is. *)
C33_PeriodFollowsRetryCount ==
    EventCompleted =>
        /\ timers[TIMER_POLL].period <= poll_interval_ms
        /\ U32Int(retry_count) = 0 => timers[TIMER_POLL].period = poll_interval_ms
        /\ U32Int(retry_count) > 0 =>
              timers[TIMER_POLL].period =
                  Min(RETRY_BASE_MS * 2 ^ (U32Int(retry_count) - 1), poll_interval_ms)

-----------------------------------------------------------------------------
(* When the fast-repoll timer is active *)

FastActive == timers[TIMER_RESET_POLL].on

(* C34: whenever the fast-repoll timer is active, UsageData is stored and the
   reset time of its session or of its weekly window has passed (so the timer
   is not active while no poll has succeeded); and the step in which a poll
   writes its failure leaves the fast-repoll timer as it was, active or not,
   with its deadline. *)
C34_FastTimerOnlyPastReset ==
    /\ [](FastActive =>
            /\ IsSome(data)
            /\ past(Unwrap(data).session, now) \/ past(Unwrap(data).weekly, now))
    /\ [][ev' \in PollError => timers'[TIMER_RESET_POLL] = timers[TIMER_RESET_POLL]]_vars

(* a poll has just failed while the fast-repoll timer is active: the stored
   session reset time, 3 s, has passed and the timer is still active *)
C34_FastActiveThroughFailure ==
    /\ ev \in PollError
    /\ FastActive
    /\ ~last_poll_ok
    /\ IsSome(data)
    /\ Unwrap(data).session.resets_at = ResetSoon
    /\ now >= Unwrap(ResetSoon)

-----------------------------------------------------------------------------
(* The backoff arithmetic in 32 bits *)

(* retry_count after failure i *)
After(i) == IF i = Len(call.before) THEN call.retry_count ELSE call.before[i + 1]

(* 30000 * 2^e as a u32, saturated: the product is below 2^32 up to e = 17 *)
Backoff(e) ==
    IF e[1] = 0 /\ e[2] <= 16 THEN U32(RETRY_BASE_MS * 2 ^ e[2])
    ELSE IF e = <<0, 17>> THEN <<60000, 0>>
    ELSE U32_MAX

(* C36: at every failure, from any retry_count: the count goes up by one, or
   stays 2^32 - 1 when it is 2^32 - 1, and is never 0 afterwards, so that the
   exponent, the count less one, is the count before the failure; the shift
   gives 2^exponent below 32 and nothing from 32 on, which is taken as
   2^32 - 1; the product with 30000 is exact up to 30000 * 2^17 and 2^32 - 1
   beyond; the delay is the smaller of the product and the steady interval,
   hence the steady interval from 30000 * 2^exponent >= steady interval on;
   and the delay of the next failure is not smaller. *)
C36_BackoffSaturates ==
    \A i \in 1..Len(call.retry_ms) :
        LET before == call.before[i]
            e == IF before = U32_MAX THEN <<LIMB - 1, LIMB - 2>> ELSE before
        IN  /\ After(i) # <<0, 0>>
            /\ After(i) = IF before = U32_MAX THEN U32_MAX
                          ELSE IF before[2] = LIMB - 1 THEN <<before[1] + 1, 0>>
                          ELSE <<before[1], before[2] + 1>>
            /\ IsSome(call.shl[i]) <=> (e[1] = 0 /\ e[2] < U32_BITS)
            /\ IsSome(call.shl[i]) =>
                  Unwrap(call.shl[i]) = IF e[2] < 16 THEN <<0, 2 ^ e[2]>>
                                        ELSE <<2 ^ (e[2] - 16), 0>>
            /\ call.backoff[i] = Backoff(e)
            /\ call.retry_ms[i] =
                  IF U32Le(Backoff(e), U32(call.poll_interval_ms))
                  THEN U32Int(Backoff(e)) ELSE call.poll_interval_ms
            /\ (e[1] > 0 \/ e[2] >= 7) => call.retry_ms[i] = call.poll_interval_ms
            /\ i > 1 => call.retry_ms[i] >= call.retry_ms[i - 1]

(* retry_count was 2^32 - 1 and two more polls failed: it is still 2^32 - 1,
   the shift gave nothing and the delay of the one-hour interval is one hour
   both times *)
C36_CountStaysAtMax ==
    /\ call.before = <<U32_MAX, U32_MAX>>
    /\ call.retry_count = U32_MAX
    /\ call.shl = <<None, None>>
    /\ call.backoff = <<U32_MAX, U32_MAX>>
    /\ call.retry_ms = <<POLL_1_HOUR, POLL_1_HOUR>>

-----------------------------------------------------------------------------
(* The bars and the stored data *)

(* the events that leave the data and the bars alone *)
KeepsData ==
    PollError \cup {"update_display", "CountdownTick", "freq_store",
                    "UserChangedInterval", "Refresh"}

(* C37: whenever the state can be read (the lock is free) and data is stored,
   the two bar percentages are those of the stored data; a failed poll, a
   countdown tick, a change of the interval and a manual refresh change neither
   the stored data nor the bar percentages; so right after a failure with data
   stored both texts are "..." and the percentages are still those of the
   data. *)
C37_BarsFollowStoredData ==
    /\ [](mutex = 0 /\ IsSome(data) =>
             /\ session_percent = Unwrap(data).session.percentage
             /\ weekly_percent = Unwrap(data).weekly.percentage)
    /\ [][ev' \in KeepsData =>
             /\ data' = data
             /\ session_percent' = session_percent
             /\ weekly_percent' = weekly_percent]_vars
    /\ [](ev \in PollError /\ IsSome(data) =>
             /\ session_text = "..."
             /\ weekly_text = "..."
             /\ session_percent = Unwrap(data).session.percentage
             /\ weekly_percent = Unwrap(data).weekly.percentage)

(* a poll has just failed after a successful one: the texts are "..." and the
   bars show the percentages, not zero, of the stored data *)
C37_FailureKeepsBars ==
    /\ ev \in PollError
    /\ IsSome(data)
    /\ session_text = "..."
    /\ weekly_text = "..."
    /\ session_percent > 0
    /\ weekly_percent > 0
    /\ session_percent = Unwrap(data).session.percentage
    /\ weekly_percent = Unwrap(data).weekly.percentage

-----------------------------------------------------------------------------
(* Settling after the failures have ended *)

(* how long ago, at most, a text on screen was formatted *)
Lags == {0, 1000, 2000, 3000, 4000}

(* the text is what format_line gave for this section a short while ago *)
FormattedFrom(text, section) == \E lag \in Lags : text = format_line(section, now - lag)

(* the state the widget is to settle in *)
Settled ==
    /\ last_poll_ok
    /\ retry_count = U32(0)
    /\ ~FastActive
    /\ timers[TIMER_POLL].on
    /\ timers[TIMER_POLL].period = poll_interval_ms
    /\ IsSome(data)
    /\ FormattedFrom(session_text, Unwrap(data).session)
    /\ FormattedFrom(weekly_text, Unwrap(data).weekly)

NoFailure == ev \notin PollError
NoResetPassed == IsSome(data) => ~is_past_reset(Unwrap(data), now)

(* the state can be read: no thread is inside a critical section *)
Readable == mutex = 0

(* C35 as stated: if from some point on no poll fails (the reset times a poll
   returns are absent or ahead in every run), the widget ends up for good in
   the settled state: last_poll_ok, retry_count 0, fast-repoll timer inactive,
   poll timer at the steady interval, both texts formatted from the stored
   data. *)
C35_SettlesForGood == <>[]NoFailure => <>[](Readable => Settled)

(* C35: if from some point on no poll fails, then from some point on the
   widget is in the settled state whenever no reset time of the stored data
   has passed, and it is in the settled state again and again; it leaves it
   each time a stored reset time passes, when the fast-repoll timer is
   started, until a poll stores fresh data. *)
C35_SettlesBetweenResets ==
    <>[]NoFailure => /\ <>[](Readable /\ NoResetPassed => Settled)
                     /\ []<>(Readable /\ Settled)

(* polls have failed and the next one has succeeded with a reset time ahead:
   the widget is in the settled state *)
C35_SettledAfterRecovery ==
    /\ ev = "PollRecovered"
    /\ Settled
    /\ IsSome(Unwrap(data).session.resets_at)
    /\ NoResetPassed

====
